---- MODULE Spec2Model ----
(***************************************************************************)
(* NIZKP-Benchmark: the MiMC round permutation and its three encodings     *)
(* (bulletproof R1CS gadget, Groth16 circuit, STARK AIR and trace          *)
(* builder), with the run() and the benchmark() of every backend and the   *)
(* sequential driver.                                                      *)
(*                                                                         *)
(* The proving libraries are modelled as ideal proof systems: a proof      *)
(* carries the prover's assignment, and a verifier accepts exactly when    *)
(* the statement it rebuilt is satisfied by that assignment (and, where    *)
(* the library binds them by Fiat-Shamir, the public inputs agree).        *)
(***************************************************************************)
EXTENDS Integers, Sequences, FiniteSets, TLC

(***************************************************************************)
(* Bounds of the model.                                                    *)
(***************************************************************************)
\* Modulus of the scalar field the three backends are modelled over.
P == 5
\* Round constants of the pure-function specification are the sequences
\* c_i = a*i^2 + b*i + c (mod P) with coefficients a, b, c in 0..MaxCoef.
MaxCoef == 1
\* Seeds of the run specification range over 0..MaxSeed.
MaxSeed == 30
\* benchmark is called with samples in 1..MaxSamples.
MaxSamples == 3
\* An elapsed() reading returns a duration in 1..MaxDuration.
MaxDuration == 2

(***************************************************************************)
(* Program constants.                                                      *)
(***************************************************************************)
\* mimc.rs: MIMC_ROUNDS = 255; scaled to the smallest value of the form
\* 2^k - 1 whose trace length (MIMC_ROUNDS + 1) is at least 8.
MIMC_ROUNDS == 7
\* stark.rs: TRACE_WIDTH
TRACE_WIDTH == 3
\* bulletproof.rs: GENS_CAPACITY
GENS_CAPACITY == (MIMC_ROUNDS + 1) * 2
\* mimc.rs: SAMPLES = 50; scaled.
SAMPLES == 2

(***************************************************************************)
(* Field arithmetic (Scalar of curve25519 / bls12_381, BaseElement f128).  *)
(***************************************************************************)
Field == 0 .. (P - 1)

Add(a, b) == (a + b) % P

Sub(a, b) == ((a % P) + P - (b % P)) % P

Mul(a, b) == (a * b) % P

Neg(a) == (P - (a % P)) % P

square(x) == Mul(x, x)

cube(x) == Mul(Mul(x, x), x)

\* Option<T>: None is the empty sequence, Some(v) the one-element sequence.
None == << >>

Some(v) == << v >>

IsSome(o) == Len(o) = 1

unwrap(o) == o[1]

\* usize::next_power_of_two
RECURSIVE pow2_at_least(_, _)
pow2_at_least(n, p) == IF p >= n THEN p ELSE pow2_at_least(n, 2 * p)

next_power_of_two(n) == pow2_at_least(n, 1)

is_power_of_two(n) == n >= 1 /\ next_power_of_two(n) = n

\* F applied to the value of v, with v evaluated once (a let-binding by
\* value): every intermediate result below is computed a single time.
Bind(v, F(_)) == CHOOSE y \in { F(x) : x \in {v} } : TRUE

(***************************************************************************)
(* 4.1 Permutation reference: the three mimc functions.                    *)
(***************************************************************************)
\* bulletproof::mimc: for i in 0..mimc_rounds, indexing constants[i].
\* The loop body on the state st = <<xl, xr>> with constants[i] = ci.
bulletproof_mimc_round(st, ci) ==
    LET tmp1 == Add(st[1], ci)
        tmp2 == Add(Mul(Mul(tmp1, tmp1), tmp1), st[2])
    IN  << tmp2, st[1] >>

RECURSIVE bulletproof_mimc_loop(_, _, _, _)
bulletproof_mimc_loop(st, i, mimc_rounds, constants) ==
    IF i >= mimc_rounds
    THEN st[1]
    ELSE Bind(bulletproof_mimc_round(st, constants[i + 1]),
              LAMBDA s : bulletproof_mimc_loop(s, i + 1, mimc_rounds,
                                               constants))

bulletproof_mimc_swapped(xl, xr, mimc_rounds, constants) ==
    bulletproof_mimc_loop(<< xr, xl >>, 0, mimc_rounds, constants)

bulletproof_mimc(xl, xr, mimc_rounds, constants) ==
    bulletproof_mimc_loop(<< xl, xr >>, 0, mimc_rounds, constants)

\* bulletproof::mimc indexes out of bounds when constants is too short.
bulletproof_mimc_panics(mimc_rounds, constants) ==
    mimc_rounds > Len(constants)

\* snark::mimc: for c in constants.
\* The loop body on the state st = <<xl, xr>> with the constant c.
snark_mimc_round(st, c) ==
    LET tmp1 == Add(st[1], c)
        tmp2 == Add(cube(tmp1), st[2])
    IN  << tmp2, st[1] >>

RECURSIVE snark_mimc_loop(_, _)
snark_mimc_loop(st, constants) ==
    IF constants = << >>
    THEN st[1]
    ELSE Bind(snark_mimc_round(st, Head(constants)),
              LAMBDA s : snark_mimc_loop(s, Tail(constants)))

snark_mimc(xl, xr, constants) == snark_mimc_loop(<< xl, xr >>, constants)

\* stark::mimc: for ci in round_constants (an array of MIMC_ROUNDS elements).
\* The loop body on the state st = <<xl, xr>> with the constant ci.
stark_mimc_round(st, ci) ==
    LET next_xl == Add(st[2], cube(Add(st[1], ci)))
    IN  << next_xl, st[1] >>

RECURSIVE stark_mimc_loop(_, _)
stark_mimc_loop(st, round_constants) ==
    IF round_constants = << >>
    THEN st[1]
    ELSE Bind(stark_mimc_round(st, Head(round_constants)),
              LAMBDA s : stark_mimc_loop(s, Tail(round_constants)))

stark_mimc(xl, xr, round_constants) ==
    stark_mimc_loop(<< xl, xr >>, round_constants)

(***************************************************************************)
(* 4.2 R1CS gadget (bulletproofs).                                         *)
(* A LinearCombination is the sequence of its terms <<variable, coeff>>;   *)
(* + and - extend the term vector as the library does.                     *)
(***************************************************************************)
Var(kind, idx) == [kind |-> kind, idx |-> idx]

One == Var("One", 0)

\* LinearCombination::from(Variable)
lc_from_var(v) == << << v, 1 >> >>

\* LinearCombination::from(Scalar)
lc_from_scalar(s) == << << One, s >> >>

\* LinearCombination + LinearCombination
lc_add(a, b) == a \o b

\* LinearCombination - LinearCombination
lc_sub(a, b) == a \o [k \in 1 .. Len(b) |-> << b[k][1], Neg(b[k][2]) >>]

\* The value of a variable under an assignment [v, a_L, a_R, a_O].
var_value(asg, v) ==
    CASE v.kind = "One" -> 1
      [] v.kind = "Committed" -> asg.v[v.idx + 1]
      [] v.kind = "MultiplierLeft" -> asg.a_L[v.idx + 1]
      [] v.kind = "MultiplierRight" -> asg.a_R[v.idx + 1]
      [] v.kind = "MultiplierOutput" -> asg.a_O[v.idx + 1]

\* Prover::eval / the verifier's weighted sum of a linear combination.
RECURSIVE lc_eval_from(_, _, _)
lc_eval_from(asg, lc, k) ==
    IF k > Len(lc)
    THEN 0
    ELSE Add(Mul(lc[k][2], var_value(asg, lc[k][1])),
             lc_eval_from(asg, lc, k + 1))

lc_eval(asg, lc) == lc_eval_from(asg, lc, 1)

\* Prover::new
prover_new ==
    [role |-> "prover", v |-> << >>, v_blinding |-> << >>,
     a_L |-> << >>, a_R |-> << >>, a_O |-> << >>,
     num_vars |-> 0, V |-> << >>, constraints |-> << >>]

\* Verifier::new
verifier_new ==
    [role |-> "verifier", v |-> << >>, v_blinding |-> << >>,
     a_L |-> << >>, a_R |-> << >>, a_O |-> << >>,
     num_vars |-> 0, V |-> << >>, constraints |-> << >>]

\* A Pedersen commitment, opened by the ideal proof system.
commitment(value, blinding) == [value |-> value, blinding |-> blinding]

\* Prover::commit(v, v_blinding) -> (commitment, Variable::Committed(i))
prover_commit(cs, value, blinding) ==
    [cs |-> [cs EXCEPT !.v = Append(@, value),
                       !.v_blinding = Append(@, blinding),
                       !.V = Append(@, commitment(value, blinding))],
     com |-> commitment(value, blinding),
     var |-> Var("Committed", Len(cs.v))]

\* Verifier::commit(commitment) -> Variable::Committed(i)
verifier_commit(cs, com) ==
    [cs |-> [cs EXCEPT !.V = Append(@, com)],
     var |-> Var("Committed", Len(cs.V))]

\* ConstraintSystem::constrain
constrain(cs, lc) == [cs EXCEPT !.constraints = Append(@, lc)]

\* Prover::multiply: evaluates both inputs, allocates the gate at a_L.len().
prover_multiply(cs, left, right) ==
    Bind(<< lc_eval(cs, left), lc_eval(cs, right), Len(cs.a_L) >>,
         LAMBDA e :
             [cs |-> [cs EXCEPT
                         !.a_L = Append(@, e[1]),
                         !.a_R = Append(@, e[2]),
                         !.a_O = Append(@, Mul(e[1], e[2])),
                         !.constraints =
                             @ \o << Append(left,
                                            << Var("MultiplierLeft", e[3]),
                                               Neg(1) >>),
                                     Append(right,
                                            << Var("MultiplierRight", e[3]),
                                               Neg(1) >>) >>],
              l |-> Var("MultiplierLeft", e[3]),
              r |-> Var("MultiplierRight", e[3]),
              o |-> Var("MultiplierOutput", e[3])])

\* A verifier whose gates are numbered from one instead of zero.
verifier_multiply_from_one(cs, left, right) ==
    Bind(cs.num_vars + 1,
         LAMBDA var :
             [cs |-> [cs EXCEPT
                         !.num_vars = var,
                         !.constraints =
                             @ \o << Append(left,
                                            << Var("MultiplierLeft", var),
                                               Neg(1) >>),
                                     Append(right,
                                            << Var("MultiplierRight", var),
                                               Neg(1) >>) >>],
              l |-> Var("MultiplierLeft", var),
              r |-> Var("MultiplierRight", var),
              o |-> Var("MultiplierOutput", var)])

\* Verifier::multiply: allocates the gate at num_vars, no assignment.
verifier_multiply(cs, left, right) ==
    Bind(cs.num_vars,
         LAMBDA var :
             [cs |-> [cs EXCEPT
                         !.num_vars = var + 1,
                         !.constraints =
                             @ \o << Append(left,
                                            << Var("MultiplierLeft", var),
                                               Neg(1) >>),
                                     Append(right,
                                            << Var("MultiplierRight", var),
                                               Neg(1) >>) >>],
              l |-> Var("MultiplierLeft", var),
              r |-> Var("MultiplierRight", var),
              o |-> Var("MultiplierOutput", var)])

\* ConstraintSystem::multiply, dispatched on the implementing role.
multiply(cs, left, right) ==
    IF cs.role = "prover"
    THEN prover_multiply(cs, left, right)
    ELSE verifier_multiply(cs, left, right)

\* The number of multiplication gates of a constraint system.
multipliers_len(cs) == IF cs.role = "prover" THEN Len(cs.a_L) ELSE cs.num_vars

\* A round whose second gate multiplies the square by itself.
mimc_hash_2_round_fourth_power(st, j, mimc_constants) ==
    Bind(lc_add(st.left_v, << << One, mimc_constants[j + 1] >> >>),
         LAMBDA left_plus_const :
    Bind(multiply(st.cs, left_plus_const, left_plus_const),
         LAMBDA g1 :
    Bind(multiply(g1.cs, lc_from_var(g1.o), lc_from_var(g1.o)),
         LAMBDA g2 :
             [cs |-> g2.cs,
              left_v |-> lc_add(lc_from_var(g2.o), st.right_v),
              right_v |-> st.left_v])))

\* One iteration of the loop of mimc_hash_2 (round j, 0-based).
mimc_hash_2_round(st, j, mimc_constants) ==
    Bind(lc_add(st.left_v, << << One, mimc_constants[j + 1] >> >>),
         LAMBDA left_plus_const :
    Bind(multiply(st.cs, left_plus_const, left_plus_const),
         LAMBDA g1 :
    Bind(multiply(g1.cs, lc_from_var(g1.o), lc_from_var(g1.l)),
         LAMBDA g2 :
             [cs |-> g2.cs,
              left_v |-> lc_add(lc_from_var(g2.o), st.right_v),
              right_v |-> st.left_v])))

RECURSIVE mimc_hash_2_loop(_, _, _, _)
mimc_hash_2_loop(st, j, mimc_rounds, mimc_constants) ==
    IF j >= mimc_rounds
    THEN st
    ELSE Bind(mimc_hash_2_round(st, j, mimc_constants),
              LAMBDA s : mimc_hash_2_loop(s, j + 1, mimc_rounds,
                                          mimc_constants))

\* mimc_hash_2 -> (cs, Ok(left_v))
mimc_hash_2(cs, left, right, mimc_rounds, mimc_constants) ==
    Bind(mimc_hash_2_loop([cs |-> cs, left_v |-> left, right_v |-> right],
                          0, mimc_rounds, mimc_constants),
         LAMBDA st : [cs |-> st.cs, lc |-> st.left_v])

\* mimc_hash_2 indexes mimc_constants[j] for every j < mimc_rounds.
mimc_hash_2_panics(mimc_rounds, mimc_constants) ==
    mimc_rounds > Len(mimc_constants)

\* A gadget that never ties its result to the image.
constrain_lc_with_scalar_dropped(cs, lc, scalar) == cs

\* constrain_lc_with_scalar
constrain_lc_with_scalar(cs, lc, scalar) ==
    constrain(cs, lc_sub(lc, lc_from_scalar(scalar)))

\* AllocatedScalar
AllocatedScalar(variable, assignment) ==
    [variable |-> variable, assignment |-> assignment]

\* A gadget that also constrains its left input to the image before the
\* first round.
mimc_gadget_constrained_first(cs, left, right, mimc_rounds, mimc_constants, image) ==
    Bind(mimc_hash_2(constrain_lc_with_scalar(cs, lc_from_var(left.variable),
                                              image),
                     lc_from_var(left.variable),
                     lc_from_var(right.variable),
                     mimc_rounds, mimc_constants),
         LAMBDA res_v : constrain_lc_with_scalar(res_v.cs, res_v.lc, image))

\* mimc_gadget
mimc_gadget(cs, left, right, mimc_rounds, mimc_constants, image) ==
    Bind(mimc_hash_2(cs, lc_from_var(left.variable),
                     lc_from_var(right.variable),
                     mimc_rounds, mimc_constants),
         LAMBDA res_v : constrain_lc_with_scalar(res_v.cs, res_v.lc, image))

\* A value that stands for "no proof".
NoProof == [kind |-> "none"]

\* Prover::prove comparing the capacity with the unpadded gate count.
prover_prove_unpadded(cs, bp_gens) ==
        IF bp_gens < Len(cs.a_L)
        THEN [ok |-> FALSE, proof |-> NoProof]
        ELSE [ok |-> TRUE,
              proof |-> [kind |-> "bulletproof", V |-> cs.V, v |-> cs.v,
                         a_L |-> cs.a_L, a_R |-> cs.a_R, a_O |-> cs.a_O]]

\* Prover::prove(&bp_gens): fails when the generators are too few for the
\* gate count padded to a power of two; otherwise the proof binds the
\* commitments and (ideally) the prover's wire assignment.
prover_prove(cs, bp_gens) ==
        IF bp_gens < next_power_of_two(Len(cs.a_L))
        THEN [ok |-> FALSE, proof |-> NoProof]
        ELSE [ok |-> TRUE,
              proof |-> [kind |-> "bulletproof", V |-> cs.V, v |-> cs.v,
                         a_L |-> cs.a_L, a_R |-> cs.a_R, a_O |-> cs.a_O]]

\* Every multiplication gate of the assignment satisfies a_L * a_R = a_O.
gates_hold(asg) ==
    \A k \in 1 .. Len(asg.a_L) : Mul(asg.a_L[k], asg.a_R[k]) = asg.a_O[k]

\* Every linear constraint of cs evaluates to zero under the assignment.
constraints_hold(cs, asg) ==
    \A k \in 1 .. Len(cs.constraints) : lc_eval(asg, cs.constraints[k]) = 0

\* Verifier::verify(&proof, &pc_gens, &bp_gens) -> is_ok()
verifier_verify(cs, proof, bp_gens) ==
    /\ proof.kind = "bulletproof"
    /\ bp_gens >= next_power_of_two(cs.num_vars)
    /\ Len(proof.a_L) = cs.num_vars
    /\ proof.V = cs.V
    /\ gates_hold(proof)
    /\ constraints_hold(cs, proof)

\* The prover block of bulletproof::run: commit xl, commit xr, drive the
\* gadget, prove.
bulletproof_prover_block(xl, xr, bl, br, mimc_rounds, constants, image, gens) ==
    Bind(prover_commit(prover_new, xl, bl), LAMBDA cl :
    Bind(prover_commit(cl.cs, xr, br), LAMBDA cr :
    Bind(mimc_gadget(cr.cs, AllocatedScalar(cl.var, Some(xl)),
                     AllocatedScalar(cr.var, Some(xr)),
                     mimc_rounds, constants, image), LAMBDA cs :
    Bind(prover_prove(cs, gens), LAMBDA pr :
         [cs |-> cs, ok |-> pr.ok, proof |-> pr.proof,
          commitments |-> << cl.com, cr.com >>]))))

\* The verifier block of bulletproof::run: commit both commitments, drive the
\* gadget without assignments, verify.
bulletproof_verifier_block(proof, coms, mimc_rounds, constants, image, gens) ==
    Bind(verifier_commit(verifier_new, coms[1]), LAMBDA cl :
    Bind(verifier_commit(cl.cs, coms[2]), LAMBDA cr :
    Bind(mimc_gadget(cr.cs, AllocatedScalar(cl.var, None),
                     AllocatedScalar(cr.var, None),
                     mimc_rounds, constants, image), LAMBDA cs :
         [cs |-> cs, ok |-> verifier_verify(cs, proof, gens)])))

(***************************************************************************)
(* 4.3 Groth16 circuit (bellman).                                          *)
(* A constraint system is synthesized in mode "keygen" (parameter          *)
(* generation: witness closures are never called) or "prove" (every        *)
(* closure is evaluated).  Index 0 of the inputs is the constant ONE.      *)
(***************************************************************************)
\* CS::one()
cs_one == Var("Input", 0)

\* KeypairAssembly / ProvingAssignment after the library allocated ONE.
snark_cs_new(mode) ==
    [mode |-> mode, num_inputs |-> 1, num_aux |-> 0,
     input_assignment |-> IF mode = "prove" THEN << 1 >> ELSE << >>,
     aux_assignment |-> << >>, constraints |-> << >>]

\* alloc assigning zero to a variable whose closure yields no value.
alloc_zero_for_missing(cs, value) ==
    [ok |-> TRUE,
     cs |-> [cs EXCEPT !.num_aux = @ + 1,
                       !.aux_assignment =
                           IF cs.mode = "prove"
                           THEN Append(@, IF IsSome(value)
                                          THEN unwrap(value) ELSE 0)
                           ELSE @],
     var |-> Var("Aux", cs.num_aux)]

\* ConstraintSystem::alloc(|| name, || value): Err(AssignmentMissing) when
\* the closure is evaluated and yields no value.
alloc(cs, value) ==
    IF cs.mode = "prove" /\ ~IsSome(value)
    THEN [ok |-> FALSE, cs |-> cs, var |-> Var("Aux", cs.num_aux)]
    ELSE [ok |-> TRUE,
          cs |-> [cs EXCEPT !.num_aux = @ + 1,
                            !.aux_assignment =
                                IF cs.mode = "prove"
                                THEN Append(@, unwrap(value)) ELSE @],
          var |-> Var("Aux", cs.num_aux)]

\* ConstraintSystem::alloc_input(|| name, || value)
alloc_input(cs, value) ==
    IF cs.mode = "prove" /\ ~IsSome(value)
    THEN [ok |-> FALSE, cs |-> cs, var |-> Var("Input", cs.num_inputs)]
    ELSE [ok |-> TRUE,
          cs |-> [cs EXCEPT !.num_inputs = @ + 1,
                            !.input_assignment =
                                IF cs.mode = "prove"
                                THEN Append(@, unwrap(value)) ELSE @],
          var |-> Var("Input", cs.num_inputs)]

\* ConstraintSystem::enforce(|| name, a, b, c): a * b = c
enforce(cs, a, b, c) ==
    [cs EXCEPT !.constraints = Append(@, [a |-> a, b |-> b, c |-> c])]

\* The value of a variable under an assignment [input_assignment,
\* aux_assignment].
snark_var_value(asg, v) ==
    IF v.kind = "Input"
    THEN asg.input_assignment[v.idx + 1]
    ELSE asg.aux_assignment[v.idx + 1]

RECURSIVE snark_lc_eval_from(_, _, _)
snark_lc_eval_from(asg, lc, k) ==
    IF k > Len(lc)
    THEN 0
    ELSE Add(Mul(lc[k][2], snark_var_value(asg, lc[k][1])),
             snark_lc_eval_from(asg, lc, k + 1))

snark_lc_eval(asg, lc) == snark_lc_eval_from(asg, lc, 1)

\* MiMCCircuit { xl, xr, constants }
MiMCCircuit(xl, xr, constants) ==
    [xl |-> xl, xr |-> xr, constants |-> constants]

\* tmp_value = xl_value.map(|e| (e + c_i)^2)
tmp_value_of(xl_value, ci) ==
    IF IsSome(xl_value)
    THEN Some(square(Add(unwrap(xl_value), ci)))
    ELSE None

\* A round output that forgets the right half.
new_xl_value_without_xr(xl_value, xr_value, tmp_value, ci) ==
    IF IsSome(xl_value)
    THEN Some(Mul(Add(unwrap(xl_value), ci), unwrap(tmp_value)))
    ELSE None

\* new_xl_value = xl_value.map(|e| (e + c_i) * tmp_value.unwrap()
\*                                  + xr_value.unwrap())
new_xl_value_of(xl_value, xr_value, tmp_value, ci) ==
    IF IsSome(xl_value)
    THEN Some(Add(Mul(Add(unwrap(xl_value), ci), unwrap(tmp_value)),
                  unwrap(xr_value)))
    ELSE None

\* A circuit exposing the output of round 0 instead of the last round's.
is_last_round_first(i) == i = 0

\* if i == (MIMC_ROUNDS - 1): the round whose new_xl is the public input
is_last_round(i) == i = MIMC_ROUNDS - 1

\* lc + xl + (c_i, CS::one())
xl_plus_ci(xl, ci) == << << xl, 1 >>, << cs_one, ci >> >>

\* One iteration of the loop of MiMCCircuit::synthesize (round i, 0-based).
\* st.status is "ok", "AssignmentMissing" (an Err returned by ?) or "panic"
\* (unwrap of None inside the eagerly evaluated map closure).
synthesize_round(st, i, constants) ==
    IF st.status # "ok" THEN st ELSE
    Bind(constants[i + 1], LAMBDA ci :
    Bind(tmp_value_of(st.xl_value, ci), LAMBDA tmp_value :
    Bind(alloc(st.cs, tmp_value), LAMBDA tmp :
        IF ~tmp.ok THEN [st EXCEPT !.status = "AssignmentMissing"] ELSE
    Bind(enforce(tmp.cs, xl_plus_ci(st.xl, ci), xl_plus_ci(st.xl, ci),
                 << << tmp.var, 1 >> >>), LAMBDA cs1 :
        IF IsSome(st.xl_value) /\ ~IsSome(st.xr_value)
        THEN [st EXCEPT !.status = "panic", !.cs = cs1] ELSE
    Bind(new_xl_value_of(st.xl_value, st.xr_value, tmp_value, ci),
         LAMBDA new_xl_value :
    Bind(IF is_last_round(i)
         THEN alloc_input(cs1, new_xl_value)
         ELSE alloc(cs1, new_xl_value), LAMBDA new_xl :
        IF ~new_xl.ok
        THEN [st EXCEPT !.status = "AssignmentMissing", !.cs = cs1] ELSE
        [status |-> "ok",
         cs |-> enforce(new_xl.cs, << << tmp.var, 1 >> >>,
                        xl_plus_ci(st.xl, ci),
                        << << new_xl.var, 1 >>, << st.xr, Neg(1) >> >>),
         xl |-> new_xl.var, xr |-> st.xl,
         xl_value |-> new_xl_value, xr_value |-> st.xl_value]))))))

RECURSIVE synthesize_loop(_, _, _)
synthesize_loop(st, i, constants) ==
    IF i >= MIMC_ROUNDS
    THEN st
    ELSE Bind(synthesize_round(st, i, constants),
              LAMBDA s : synthesize_loop(s, i + 1, constants))

\* synthesize comparing the lengths only after xl and xr are allocated.
synthesize_late_assert(circuit, cs) ==
    Bind(alloc(cs, circuit.xl), LAMBDA xl :
        IF ~xl.ok THEN [status |-> "AssignmentMissing", cs |-> cs] ELSE
    Bind(alloc(xl.cs, circuit.xr), LAMBDA xr :
        IF ~xr.ok THEN [status |-> "AssignmentMissing", cs |-> xl.cs] ELSE
        IF Len(circuit.constants) # MIMC_ROUNDS
        THEN [status |-> "panic", cs |-> xr.cs] ELSE
    Bind(synthesize_loop([status |-> "ok", cs |-> xr.cs,
                          xl |-> xl.var, xr |-> xr.var,
                          xl_value |-> circuit.xl, xr_value |-> circuit.xr],
                         0, circuit.constants), LAMBDA st :
        [status |-> st.status, cs |-> st.cs])))

\* MiMCCircuit::synthesize(self, cs) -> status and the constraint system.
synthesize(circuit, cs) ==
    IF Len(circuit.constants) # MIMC_ROUNDS
    THEN [status |-> "panic", cs |-> cs] ELSE
    Bind(alloc(cs, circuit.xl), LAMBDA xl :
        IF ~xl.ok THEN [status |-> "AssignmentMissing", cs |-> cs] ELSE
    Bind(alloc(xl.cs, circuit.xr), LAMBDA xr :
        IF ~xr.ok THEN [status |-> "AssignmentMissing", cs |-> xl.cs] ELSE
    Bind(synthesize_loop([status |-> "ok", cs |-> xr.cs,
                          xl |-> xl.var, xr |-> xr.var,
                          xl_value |-> circuit.xl, xr_value |-> circuit.xr],
                         0, circuit.constants), LAMBDA st :
        [status |-> st.status, cs |-> st.cs])))

\* Every enforced constraint a * b = c holds under the assignment.
r1cs_satisfied(constraints, asg) ==
    \A k \in 1 .. Len(constraints) :
        Mul(snark_lc_eval(asg, constraints[k].a),
            snark_lc_eval(asg, constraints[k].b))
            = snark_lc_eval(asg, constraints[k].c)

\* generate_random_parameters(circuit, rng): synthesizes the circuit for key
\* generation; draws are the values it takes from rng (the toxic waste).
generate_random_parameters(circuit, draws) ==
    Bind(synthesize(circuit, snark_cs_new("keygen")), LAMBDA syn :
         [ok |-> syn.status = "ok", status |-> syn.status,
          crs |-> [kind |-> "crs", constraints |-> syn.cs.constraints,
                   num_inputs |-> syn.cs.num_inputs,
                   num_aux |-> syn.cs.num_aux, toxic |-> draws]])

\* prepare_verifying_key(&crs.vk)
prepare_verifying_key(crs) ==
    [kind |-> "pvk", constraints |-> crs.constraints,
     num_inputs |-> crs.num_inputs, num_aux |-> crs.num_aux,
     toxic |-> crs.toxic]

\* create_random_proof(circuit, &crs, rng): synthesizes the circuit with every
\* witness closure evaluated; draws are the blinding values r and s.
create_random_proof(circuit, crs, draws) ==
    Bind(synthesize(circuit, snark_cs_new("prove")), LAMBDA syn :
         [ok |-> syn.status = "ok", status |-> syn.status,
          proof |-> IF syn.status = "ok"
                    THEN [kind |-> "groth16", toxic |-> crs.toxic,
                          input_assignment |-> syn.cs.input_assignment,
                          aux_assignment |-> syn.cs.aux_assignment,
                          blinding |-> draws]
                    ELSE NoProof])

\* verify_proof(&pvk, &proof, &public_inputs) -> is_ok()
verify_proof(pvk, proof, public_inputs) ==
    /\ proof.kind = "groth16"
    /\ Len(public_inputs) + 1 = pvk.num_inputs
    /\ proof.toxic = pvk.toxic
    /\ Len(proof.aux_assignment) = pvk.num_aux
    /\ proof.input_assignment = << 1 >> \o public_inputs
    /\ r1cs_satisfied(pvk.constraints,
                      [input_assignment |-> << 1 >> \o public_inputs,
                       aux_assignment |-> proof.aux_assignment])

(***************************************************************************)
(* 4.4 STARK AIR and trace builder (winterfell).                           *)
(* A trace is the sequence of its rows; trace.get(column, step) is         *)
(* trace[step + 1][column + 1].                                            *)
(***************************************************************************)
\* ProofOptions::new(NUM_QUERIES, BLOWUP_FACTOR, GRINDING_FACTOR,
\*                   FIELD_EXTENSION, FRI_FOLDING_FACTOR,
\*                   FRI_REMAINDER_MAX_DEGREE)
ProofOptions_new ==
    [num_queries |-> 42, blowup_factor |-> 8, grinding_factor |-> 16,
     field_extension |-> "None", fri_folding_factor |-> 8,
     fri_remainder_max_degree |-> 31]

\* PublicInputs { xl, xr, result, round_constants }
PublicInputs(xl, xr, result, round_constants) ==
    [xl |-> xl, xr |-> xr, result |-> result,
     round_constants |-> round_constants]

\* ToElements without the round constants.
to_elements_short(pub_inputs) ==
    << pub_inputs.xl, pub_inputs.xr, pub_inputs.result >>

\* <PublicInputs as ToElements>::to_elements
to_elements(pub_inputs) ==
    << pub_inputs.xl, pub_inputs.xr, pub_inputs.result >>
        \o pub_inputs.round_constants

\* trace.get(column, step)
trace_get(trace, column, step) == trace[step + 1][column + 1]

\* TraceTable::new(width, length) panics unless the length is a power of
\* two of at least 8.
TraceTable_new_panics(width, length) ==
    ~(length >= 8 /\ is_power_of_two(length))

\* build_trace with only its own debug assertions, the table built at any
\* length.
build_trace_panics_debug_only(mimc_rounds, round_constants, debug) ==
    LET trace_length == mimc_rounds + 1
    IN  \/ debug /\ mimc_rounds # Len(round_constants)
        \/ debug /\ ~(trace_length >= 8)
        \/ Len(round_constants) < mimc_rounds

\* Whether build_trace panics in a build whose MIMC_ROUNDS is mimc_rounds:
\* with debug assertions it checks the constants' length and the minimum
\* length itself; TraceTable::new checks the length in every build; the fill
\* closures index round_constants[0 .. mimc_rounds - 1].
build_trace_panics(mimc_rounds, round_constants, debug) ==
    LET trace_length == mimc_rounds + 1
    IN  \/ debug /\ mimc_rounds # Len(round_constants)
        \/ debug /\ ~(trace_length >= 8)
        \/ TraceTable_new_panics(TRACE_WIDTH, trace_length)
        \/ Len(round_constants) < mimc_rounds

\* The update closure of trace.fill: one round of MiMC on a row.
build_trace_update_same_ci(mimc_rounds, step, state, round_constants) ==
    LET xl == state[1]
        xr == state[2]
        ci == state[3]
        new_xl == Add(xr, cube(Add(xl, ci)))
        new_xr == xl
        new_ci == IF step < mimc_rounds - 1
                  THEN round_constants[step + 1]
                  ELSE 0
    IN  << new_xl, new_xr, new_ci >>

build_trace_update(mimc_rounds, step, state, round_constants) ==
    LET xl == state[1]
        xr == state[2]
        ci == state[3]
        new_xl == Add(xr, cube(Add(xl, ci)))
        new_xr == xl
        new_ci == IF step < mimc_rounds - 1
                  THEN round_constants[step + 2]
                  ELSE 0
    IN  << new_xl, new_xr, new_ci >>

\* TraceTable::fill(init, update): row 0 from init, then row step + 1 from
\* update(step, row step) for step in 0 .. length - 2.
RECURSIVE trace_fill(_, _, _, _)
trace_fill(mimc_rounds, rows, trace_length, round_constants) ==
    IF Len(rows) >= trace_length
    THEN rows
    ELSE Bind(Append(rows,
                     build_trace_update(mimc_rounds, Len(rows) - 1,
                                        rows[Len(rows)], round_constants)),
              LAMBDA rs : trace_fill(mimc_rounds, rs, trace_length,
                                     round_constants))

\* MiMCProver::build_trace in a build whose MIMC_ROUNDS is mimc_rounds.
build_trace(mimc_rounds, xl, xr, round_constants) ==
    LET trace_length == mimc_rounds + 1
    IN  trace_fill(mimc_rounds, << << xl, xr, round_constants[1] >> >>,
                   trace_length, round_constants)

\* get_pub_inputs reading the round constants one step late.
get_pub_inputs_one_step_late(trace) ==
    LET last_step == Len(trace) - 1
        round_constants == [i \in 1 .. MIMC_ROUNDS |->
                               IF i <= Len(trace) - 1
                               THEN trace_get(trace, 2, i)
                               ELSE 0]
    IN  PublicInputs(trace_get(trace, 0, 0), trace_get(trace, 1, 0),
                     trace_get(trace, 0, last_step), round_constants)

\* MiMCProver::get_pub_inputs
get_pub_inputs(trace) ==
    LET last_step == Len(trace) - 1
        round_constants == [i \in 1 .. MIMC_ROUNDS |->
                               IF i <= Len(trace) - 1
                               THEN trace_get(trace, 2, i - 1)
                               ELSE 0]
    IN  PublicInputs(trace_get(trace, 0, 0), trace_get(trace, 1, 0),
                     trace_get(trace, 0, last_step), round_constants)

\* MiMCAir::new(trace_info, pub_inputs, options)
MiMCAir_new(trace_length, pub_inputs, options) ==
    [trace_length |-> trace_length, degrees |-> << 3, 1 >>,
     num_assertions |-> 3, options |-> options,
     xl |-> pub_inputs.xl, xr |-> pub_inputs.xr,
     result |-> pub_inputs.result]

\* are_equal
are_equal(a, b) == Sub(a, b)

\* MiMCAir::evaluate_transition on the frame (current, next)
evaluate_transition(current, next) ==
    LET current_xl == current[1]
        current_xr == current[2]
        current_ci == current[3]
        next_xl == next[1]
        next_xr == next[2]
        current_xlci == Add(current_xl, current_ci)
        expected_xl == Add(current_xr, cube(current_xlci))
        expected_xr == current_xl
    IN  << are_equal(next_xl, expected_xl), are_equal(next_xr, expected_xr) >>

\* Assertion::single(column, step, value)
Assertion_single(column, step, value) ==
    [column |-> column, step |-> step, value |-> value]

get_assertions_wrong_column(air) ==
    LET last_step == air.trace_length - 1
    IN  << Assertion_single(0, 0, air.xl), Assertion_single(1, 0, air.xr),
           Assertion_single(1, last_step, air.result) >>

\* MiMCAir::get_assertions
get_assertions(air) ==
    LET last_step == air.trace_length - 1
    IN  << Assertion_single(0, 0, air.xl), Assertion_single(1, 0, air.xr),
           Assertion_single(0, last_step, air.result) >>

\* Both transition constraints are zero on every pair of consecutive rows
\* (the library exempts the last step).
transitions_hold(trace) ==
    \A step \in 0 .. Len(trace) - 2 :
        evaluate_transition(trace[step + 1], trace[step + 2]) = << 0, 0 >>

\* Every boundary assertion of the AIR holds on the trace.
assertions_hold(air, trace) ==
    \E assertions \in {get_assertions(air)} :
        /\ Len(assertions) = air.num_assertions
        /\ \A k \in 1 .. Len(assertions) :
               trace_get(trace, assertions[k].column, assertions[k].step)
                   = assertions[k].value

\* Prover::prove(trace): the public inputs the prover derives from the trace
\* seed the public coin; with debug assertions the library validates the
\* trace against the AIR first.
stark_prove(trace, options, debug) ==
    Bind(get_pub_inputs(trace), LAMBDA pub_inputs :
    Bind(MiMCAir_new(Len(trace), pub_inputs, options), LAMBDA air :
         [ok |-> \/ ~debug
                 \/ transitions_hold(trace) /\ assertions_hold(air, trace),
          proof |-> [kind |-> "stark", trace |-> trace, options |-> options,
                     coin_seed |-> to_elements(pub_inputs)]]))

\* winterfell::verify(proof, pub_inputs, &acceptable_options) -> is_ok()
stark_verify(proof, pub_inputs, acceptable_options) ==
    /\ proof.kind = "stark"
    /\ proof.options \in acceptable_options
    /\ to_elements(pub_inputs) = proof.coin_seed
    /\ transitions_hold(proof.trace)
    /\ assertions_hold(MiMCAir_new(Len(proof.trace), pub_inputs,
                                   proof.options), proof.trace)

(***************************************************************************)
(* The seeded pseudo-random source.                                        *)
(***************************************************************************)
\* The k-th value the generator seeded with s yields, as a field element
\* (Scalar::random / BaseElement::new(rng.next_u64())).
Stream(s, k) ==
    (s + (s \div P) * k + ((s \div (P * P)) + 1) * k * k) % P

\* SeedableRng::from_seed.  log names, for every value drawn so far, the
\* statement that consumed it.
from_seed(s) == [seed |-> s, pos |-> 0, log |-> << >>]

\* The next n values of the generator.
rng_draw(rng, n) == [k \in 1 .. n |-> Stream(rng.seed, rng.pos + k - 1)]

\* The generator after the statement `who` has drawn n values.
rng_skip(rng, n, who) ==
    [rng EXCEPT !.pos = @ + n, !.log = @ \o [k \in 1 .. n |-> who]]

\* The preimage drawn right-hand side first.
sample_preimage_xr_first(rng) ==
    [xr |-> Stream(rng.seed, rng.pos), xl |-> Stream(rng.seed, rng.pos + 1),
     rng |-> rng_skip(rng_skip(rng, 1, "xr"), 1, "xl")]

\* let xl = rng.gen(); let xr = rng.gen();
sample_preimage(rng) ==
    [xl |-> Stream(rng.seed, rng.pos), xr |-> Stream(rng.seed, rng.pos + 1),
     rng |-> rng_skip(rng_skip(rng, 1, "xl"), 1, "xr")]

(***************************************************************************)
(* State.                                                                  *)
(*   seed              RANDOMNESS_SEED                                     *)
(*   debug_assertions  whether the build keeps debug_assert!               *)
(*   run               for each independent run of the driver: its program *)
(*                     counter and the locals of the backend it is in      *)
(*   fn                the pure-function specification: inputs and the     *)
(*                     result of the function applied to them              *)
(*   bench             one call of a backend's benchmark(mimc_rounds,      *)
(*                     samples): its program counter, locals, timers and   *)
(*                     the log of the statements it has executed           *)
(***************************************************************************)
VARIABLES seed, debug_assertions, run, fn, bench

vars == << seed, debug_assertions, run, fn, bench >>

Runs == {"run1", "run2"}

Seeds == 0 .. MaxSeed

\* Number of values generate_random_parameters draws (g1, g2, alpha, beta,
\* gamma, delta, tau) and create_random_proof draws (r, s).
ParamDraws == 7

ProofDraws == 2

\* The locals of a run() before any statement has executed.
Locals0 ==
    [rng |-> from_seed(0), constants |-> << >>, xl |-> None, xr |-> None,
     image |-> None, crs |-> NoProof, pvk |-> NoProof, bp_gens |-> None,
     options |-> None, proof |-> NoProof, commitments |-> << >>,
     prover_cs |-> None, verifier_cs |-> None,
     verification_result |-> "none"]

\* returned lists, in order, the backends whose run() has returned to main,
\* each with the verification result it held when it returned.
RunAt(pc, backend, locals, returned) ==
    [pc |-> pc, backend |-> backend, l |-> locals, returned |-> returned]

FnIdle == [pc |-> "idle"]

BenchIdle == [pc |-> "idle"]

Init ==
    /\ seed \in Seeds
    /\ debug_assertions \in BOOLEAN
    /\ run = [r \in Runs |-> RunAt("main_snark", "main", Locals0, << >>)]
    /\ fn = FnIdle
    /\ bench = BenchIdle

\* A step of run r inside a backend: from label `from` to label `to` with the
\* locals updated, or to "panicked" when the statement panics.
Step(r, from, to, panics, locals) ==
    /\ run[r].pc = from
    /\ run' = [run EXCEPT ![r] =
                  IF panics
                  THEN RunAt("panicked", run[r].backend, run[r].l,
                             run[r].returned)
                  ELSE RunAt(to, run[r].backend, locals, run[r].returned)]
    /\ UNCHANGED << seed, debug_assertions, fn, bench >>

\* main calling a backend's run().
Call(r, from, backend, to) ==
    /\ run[r].pc = from
    /\ run' = [run EXCEPT ![r] = RunAt(to, backend, Locals0,
                                       run[r].returned)]
    /\ UNCHANGED << seed, debug_assertions, fn, bench >>

\* A backend's run() returning to main: its locals are dropped.
Return(r, from, to) ==
    /\ run[r].pc = from
    /\ run' = [run EXCEPT ![r] =
                  RunAt(to, "main", Locals0,
                        Append(run[r].returned,
                               [backend |-> run[r].backend,
                                verification_result |->
                                    run[r].l.verification_result]))]
    /\ UNCHANGED << seed, debug_assertions, fn, bench >>

\* A run seeded from the run itself instead of RANDOMNESS_SEED.
run_seed_per_run(r) == IF r = "run1" THEN seed ELSE seed + 1

\* The seed every run() passes to from_seed: RANDOMNESS_SEED.
run_seed(r) == seed

(***************************************************************************)
(* main                                                                    *)
(***************************************************************************)
MainSnark(r) == Call(r, "main_snark", "snark", "snark_rng")

MainStark(r) == Call(r, "main_stark", "stark", "stark_options")

MainBulletproof(r) == Call(r, "main_bulletproof", "bulletproof", "bp_rng")

(***************************************************************************)
(* snark::run                                                              *)
(***************************************************************************)
SnarkRng(r) ==
    Step(r, "snark_rng", "snark_constants", FALSE,
         [run[r].l EXCEPT !.rng = from_seed(run_seed(r))])

SnarkConstants(r) ==
    LET l == run[r].l
    IN  Step(r, "snark_constants", "snark_crs", FALSE,
             [l EXCEPT !.constants = rng_draw(l.rng, MIMC_ROUNDS),
                       !.rng = rng_skip(l.rng, MIMC_ROUNDS, "constants")])

SnarkCrs(r) ==
    LET l == run[r].l
        circuit == MiMCCircuit(None, None, l.constants)
    IN  /\ run[r].pc = "snark_crs"
        /\ \E gen \in {generate_random_parameters(
                            circuit, rng_draw(l.rng, ParamDraws))} :
            Step(r, "snark_crs", "snark_pvk", ~gen.ok,
                 [l EXCEPT !.crs = gen.crs,
                           !.rng = rng_skip(l.rng, ParamDraws, "crs")])

SnarkPvk(r) ==
    LET l == run[r].l
    IN  Step(r, "snark_pvk", "snark_preimage", FALSE,
             [l EXCEPT !.pvk = prepare_verifying_key(l.crs)])

SnarkPreimage(r) ==
    LET l == run[r].l
        d == sample_preimage(l.rng)
    IN  Step(r, "snark_preimage", "snark_image", FALSE,
             [l EXCEPT !.xl = Some(d.xl), !.xr = Some(d.xr), !.rng = d.rng])

SnarkImage(r) ==
    LET l == run[r].l
    IN  Step(r, "snark_image", "snark_proof", FALSE,
             [l EXCEPT !.image =
                  Some(snark_mimc(unwrap(l.xl), unwrap(l.xr), l.constants))])

SnarkProof(r) ==
    LET l == run[r].l
        circuit == MiMCCircuit(l.xl, l.xr, l.constants)
    IN  /\ run[r].pc = "snark_proof"
        /\ \E res \in {create_random_proof(circuit, l.crs,
                                           rng_draw(l.rng, ProofDraws))} :
            Step(r, "snark_proof", "snark_verify", ~res.ok,
                 [l EXCEPT !.proof = res.proof,
                           !.rng = rng_skip(l.rng, ProofDraws, "proof")])

SnarkVerify(r) ==
    LET l == run[r].l
    IN  Step(r, "snark_verify", "snark_assert", FALSE,
             [l EXCEPT !.verification_result =
                  IF verify_proof(l.pvk, l.proof, << unwrap(l.image) >>)
                  THEN "ok" ELSE "err"])

SnarkAssert(r) ==
    Step(r, "snark_assert", "snark_metrics",
         run[r].l.verification_result # "ok", run[r].l)

\* main going on to bulletproof::run after snark::run.
SnarkMetrics_then_bulletproof(r) ==
    Return(r, "snark_metrics", "main_bulletproof")

SnarkMetrics(r) == Return(r, "snark_metrics", "main_stark")

(***************************************************************************)
(* stark::run                                                              *)
(***************************************************************************)
StarkOptions(r) ==
    Step(r, "stark_options", "stark_rng", FALSE,
         [run[r].l EXCEPT !.options = Some(ProofOptions_new)])

StarkRng(r) ==
    Step(r, "stark_rng", "stark_constants", FALSE,
         [run[r].l EXCEPT !.rng = from_seed(run_seed(r))])

StarkConstants(r) ==
    LET l == run[r].l
    IN  Step(r, "stark_constants", "stark_preimage", FALSE,
             [l EXCEPT !.constants = rng_draw(l.rng, MIMC_ROUNDS),
                       !.rng = rng_skip(l.rng, MIMC_ROUNDS, "constants")])

StarkPreimage(r) ==
    LET l == run[r].l
        d == sample_preimage(l.rng)
    IN  Step(r, "stark_preimage", "stark_image", FALSE,
             [l EXCEPT !.xl = Some(d.xl), !.xr = Some(d.xr), !.rng = d.rng])

StarkImage(r) ==
    LET l == run[r].l
    IN  Step(r, "stark_image", "stark_proof", FALSE,
             [l EXCEPT !.image =
                  Some(stark_mimc(unwrap(l.xl), unwrap(l.xr), l.constants))])

StarkProof(r) ==
    LET l == run[r].l
    IN  /\ run[r].pc = "stark_proof"
        /\ IF build_trace_panics(MIMC_ROUNDS, l.constants, debug_assertions)
           THEN Step(r, "stark_proof", "stark_proof_metrics", TRUE, l)
           ELSE \E res \in {stark_prove(build_trace(MIMC_ROUNDS, unwrap(l.xl),
                                                 unwrap(l.xr), l.constants),
                                     unwrap(l.options), debug_assertions)} :
                 Step(r, "stark_proof", "stark_proof_metrics", ~res.ok,
                      [l EXCEPT !.proof = res.proof])

StarkProofMetrics(r) ==
    Step(r, "stark_proof_metrics", "stark_verify", FALSE, run[r].l)

StarkVerify(r) ==
    LET l == run[r].l
        pub_inputs == PublicInputs(unwrap(l.xl), unwrap(l.xr),
                                   unwrap(l.image), l.constants)
        acceptable_options == {unwrap(l.options)}
    IN  Step(r, "stark_verify", "stark_assert", FALSE,
             [l EXCEPT !.verification_result =
                  IF stark_verify(l.proof, pub_inputs, acceptable_options)
                  THEN "ok" ELSE "err"])

\* stark::run going on whatever the verification result.
StarkAssert_result_ignored(r) ==
    Step(r, "stark_assert", "stark_metrics", FALSE, run[r].l)

StarkAssert(r) ==
    Step(r, "stark_assert", "stark_metrics",
         run[r].l.verification_result # "ok", run[r].l)

StarkMetrics(r) == Return(r, "stark_metrics", "main_bulletproof")

(***************************************************************************)
(* bulletproof::run                                                        *)
(***************************************************************************)
BpRng(r) ==
    Step(r, "bp_rng", "bp_constants", FALSE,
         [run[r].l EXCEPT !.rng = from_seed(run_seed(r))])

BpConstants(r) ==
    LET l == run[r].l
    IN  Step(r, "bp_constants", "bp_gens", FALSE,
             [l EXCEPT !.constants = rng_draw(l.rng, MIMC_ROUNDS),
                       !.rng = rng_skip(l.rng, MIMC_ROUNDS, "constants")])

BpGens(r) ==
    Step(r, "bp_gens", "bp_preimage", FALSE,
         [run[r].l EXCEPT !.bp_gens = Some(GENS_CAPACITY)])

BpPreimage(r) ==
    LET l == run[r].l
        d == sample_preimage(l.rng)
    IN  Step(r, "bp_preimage", "bp_image", FALSE,
             [l EXCEPT !.xl = Some(d.xl), !.xr = Some(d.xr), !.rng = d.rng])

BpImage(r) ==
    LET l == run[r].l
        mimc_rounds == MIMC_ROUNDS
    IN  Step(r, "bp_image", "bp_prove",
             bulletproof_mimc_panics(mimc_rounds, l.constants),
             [l EXCEPT !.image =
                  Some(bulletproof_mimc(unwrap(l.xl), unwrap(l.xr),
                                        mimc_rounds, l.constants))])

BpProve(r) ==
    LET l == run[r].l
        mimc_rounds == MIMC_ROUNDS
        d == rng_draw(l.rng, 2)
    IN  /\ run[r].pc = "bp_prove"
        /\ IF mimc_hash_2_panics(mimc_rounds, l.constants)
           THEN Step(r, "bp_prove", "bp_verify", TRUE, l)
           ELSE \E res \in {bulletproof_prover_block(
                             unwrap(l.xl), unwrap(l.xr), d[1], d[2],
                             mimc_rounds, l.constants, unwrap(l.image),
                             unwrap(l.bp_gens))} :
                 Step(r, "bp_prove", "bp_verify", ~res.ok,
                      [l EXCEPT !.proof = res.proof,
                                !.commitments = res.commitments,
                                !.prover_cs = Some(res.cs),
                                !.rng = rng_skip(l.rng, 2, "blinding")])

BpVerify(r) ==
    LET l == run[r].l
        mimc_rounds == MIMC_ROUNDS
    IN  /\ run[r].pc = "bp_verify"
        /\ IF mimc_hash_2_panics(mimc_rounds, l.constants)
           THEN Step(r, "bp_verify", "bp_assert", TRUE, l)
           ELSE \E res \in {bulletproof_verifier_block(
                             l.proof, l.commitments, mimc_rounds,
                             l.constants, unwrap(l.image),
                             unwrap(l.bp_gens))} :
                 Step(r, "bp_verify", "bp_assert", FALSE,
                      [l EXCEPT !.verifier_cs = Some(res.cs),
                                !.verification_result =
                                    IF res.ok THEN "ok" ELSE "err"])

BpAssert(r) ==
    Step(r, "bp_assert", "bp_metrics",
         run[r].l.verification_result # "ok", run[r].l)

BpMetrics(r) == Return(r, "bp_metrics", "main_done")

(***************************************************************************)
(* The pure-function specification: the inputs are drawn in InitFn, and    *)
(* each action applies one function of the program to them once.           *)
(***************************************************************************)
\* Constants sequences of length n.
ConstantsOf(n) ==
    { [i \in 1 .. n |-> (a * i * i + b * i + c) % P] :
          a \in 0 .. MaxCoef, b \in 0 .. MaxCoef, c \in 0 .. MaxCoef }

InitFn ==
    /\ seed = 0
    /\ debug_assertions \in BOOLEAN
    /\ run = [r \in Runs |-> RunAt("main_snark", "main", Locals0, << >>)]
    /\ bench = BenchIdle
    /\ \E n \in 1 .. MIMC_ROUNDS + 1 :
           fn \in [pc : {"start"}, xl : Field, xr : Field,
                   mimc_rounds : {1, n, MIMC_ROUNDS},
                   constants : ConstantsOf(n),
                   image : {None}, out : {None}]

\* The function applied: fn moves from "start" to `to` holding the result.
Apply(to, image, out) ==
    /\ fn.pc = "start"
    /\ fn' = [fn EXCEPT !.pc = to, !.image = image, !.out = out]
    /\ UNCHANGED << seed, debug_assertions, run, bench >>

\* The three mimc functions on (xl, xr, constants).  bulletproof::mimc panics
\* on a short constants slice; stark::mimc takes an array of MIMC_ROUNDS.
FnMimc ==
    Apply("mimc", None,
          [bulletproof |->
               IF bulletproof_mimc_panics(fn.mimc_rounds, fn.constants)
               THEN None
               ELSE Some(bulletproof_mimc(fn.xl, fn.xr, fn.mimc_rounds,
                                          fn.constants)),
           snark |-> Some(snark_mimc(fn.xl, fn.xr, fn.constants)),
           stark |->
               IF Len(fn.constants) = MIMC_ROUNDS
               THEN Some(stark_mimc(fn.xl, fn.xr, fn.constants))
               ELSE None])

\* The prover's constraint system with xl and xr committed (blindings 0).
gadget_prover_committed(xl, xr) ==
    prover_commit(prover_commit(prover_new, xl, 0).cs, xr, 0).cs

\* The verifier's constraint system with the two commitments.
gadget_verifier_committed(commitments) ==
    verifier_commit(verifier_commit(verifier_new, commitments[1]).cs,
                    commitments[2]).cs

\* mimc_hash_2 and mimc_gadget driven on the prover's and on the verifier's
\* constraint system, against an arbitrary image.
FnGadget ==
    /\ fn.pc = "start"
    /\ IF mimc_hash_2_panics(fn.mimc_rounds, fn.constants)
       THEN \E image \in Field : Apply("gadget_panicked", Some(image), None)
       ELSE \E pcs \in {gadget_prover_committed(fn.xl, fn.xr)} :
            \E vcs \in {gadget_verifier_committed(pcs.V)} :
            \E left \in {lc_from_var(Var("Committed", 0))} :
            \E right \in {lc_from_var(Var("Committed", 1))} :
            \E hash \in {mimc_hash_2(pcs, left, right, fn.mimc_rounds,
                                     fn.constants)} :
                \E image \in Field :
                    Apply("gadget", Some(image),
                          [hash |-> hash,
                           prover |-> mimc_gadget(pcs,
                                          AllocatedScalar(Var("Committed", 0),
                                                          Some(fn.xl)),
                                          AllocatedScalar(Var("Committed", 1),
                                                          Some(fn.xr)),
                                          fn.mimc_rounds, fn.constants, image),
                           verifier |-> mimc_gadget(vcs,
                                          AllocatedScalar(Var("Committed", 0),
                                                          None),
                                          AllocatedScalar(Var("Committed", 1),
                                                          None),
                                          fn.mimc_rounds, fn.constants, image)])

\* MiMCCircuit::synthesize with the witness present (proving) or absent (key
\* generation).
FnSynthesize ==
    /\ fn.pc = "start"
    /\ \E mode \in {"prove", "keygen"} :
           \E circuit \in {IF mode = "prove"
                           THEN MiMCCircuit(Some(fn.xl), Some(fn.xr),
                                            fn.constants)
                           ELSE MiMCCircuit(None, None, fn.constants)} :
               Apply("synthesize", None,
                     [mode |-> mode,
                      syn |-> synthesize(circuit, snark_cs_new(mode))])

\* MiMCProver::build_trace, in a build whose MIMC_ROUNDS is fn.mimc_rounds, on
\* a round_constants slice of any length, and the public inputs read back
\* from the trace.
FnBuildTrace ==
    /\ fn.pc = "start"
    /\ IF build_trace_panics(fn.mimc_rounds, fn.constants, debug_assertions)
       THEN Apply("build_trace_panicked", None, None)
       ELSE \E trace \in {build_trace(fn.mimc_rounds, fn.xl, fn.xr,
                                      fn.constants)} :
                Apply("build_trace", None,
                      [trace |-> trace,
                       pub_inputs |-> get_pub_inputs(trace)])

\* The prover block for the image of (xl, xr) with a generator set of every
\* capacity up to (mimc_rounds + 1) * 2: BulletproofGens::new(capacity, 1),
\* the gadget, prover.prove(&bp_gens).
FnProve ==
    /\ fn.pc = "start"
    /\ ~mimc_hash_2_panics(fn.mimc_rounds, fn.constants)
    /\ \E image \in {bulletproof_mimc(fn.xl, fn.xr, fn.mimc_rounds,
                                      fn.constants)} :
       \E pcs \in {gadget_prover_committed(fn.xl, fn.xr)} :
       \E cs \in {mimc_gadget(pcs,
                              AllocatedScalar(Var("Committed", 0),
                                              Some(fn.xl)),
                              AllocatedScalar(Var("Committed", 1),
                                              Some(fn.xr)),
                              fn.mimc_rounds, fn.constants, image)} :
       \E capacity \in 0 .. (fn.mimc_rounds + 1) * 2 :
           Apply("prove", Some(image),
                 [capacity |-> capacity,
                  multipliers |-> Len(cs.a_L),
                  res |-> prover_prove(cs, capacity)])

\* create_random_proof on a circuit that lacks xl, xr or both: the proving
\* synthesis and the proof it leads to.
FnProveMissing ==
    /\ fn.pc = "start"
    /\ \E xl_present \in BOOLEAN, xr_present \in BOOLEAN :
           /\ ~(xl_present /\ xr_present)
           /\ \E circuit \in {MiMCCircuit(
                                  IF xl_present THEN Some(fn.xl) ELSE None,
                                  IF xr_present THEN Some(fn.xr) ELSE None,
                                  fn.constants)} :
              \E gen \in {generate_random_parameters(
                              MiMCCircuit(None, None, fn.constants),
                              [k \in 1 .. ParamDraws |-> 0])} :
                  Apply("prove_missing", None,
                        [xl_present |-> xl_present,
                         xr_present |-> xr_present,
                         syn |-> synthesize(circuit, snark_cs_new("prove")),
                         res |-> create_random_proof(
                                     circuit, gen.crs,
                                     [k \in 1 .. ProofDraws |-> 0])])

\* The constraints of MiMCAir evaluated, as the verifier's side of the proof
\* system does, on a 3-column trace of MIMC_ROUNDS + 1 rows a prover supplies
\* (its third column filled from the public round constants or from another
\* sequence, here each constant plus one) for the public inputs
\* (xl, xr, result, round_constants).
FnAir ==
    /\ fn.pc = "start"
    /\ fn.mimc_rounds = MIMC_ROUNDS
    /\ Len(fn.constants) = MIMC_ROUNDS
    /\ \E column \in {fn.constants,
                       [i \in 1 .. MIMC_ROUNDS |-> Add(fn.constants[i], 1)]} :
       \E trace \in {build_trace(MIMC_ROUNDS, fn.xl, fn.xr, column)} :
       \E pub_inputs \in {PublicInputs(fn.xl, fn.xr,
                                       trace_get(trace, 0, MIMC_ROUNDS),
                                       fn.constants)} :
           Apply("air", Some(pub_inputs.result),
                 [trace |-> trace,
                  pub_inputs |-> pub_inputs,
                  air_holds |->
                      /\ transitions_hold(trace)
                      /\ assertions_hold(
                             MiMCAir_new(Len(trace), pub_inputs,
                                         ProofOptions_new), trace)])

NextFn ==
    \/ FnMimc \/ FnGadget \/ FnSynthesize \/ FnBuildTrace \/ FnProve
    \/ FnProveMissing \/ FnAir

SpecFn == InitFn /\ [][NextFn]_vars

(***************************************************************************)
(* benchmark(mimc_rounds, samples) of the three backends.  Time is a       *)
(* counter: every elapsed() reading returns a duration in Durations.  The  *)
(* log records, in order, the statements executed: "setup", "prepare" (the *)
(* untimed statements of an iteration), "start_prove", "prove",            *)
(* "elapsed_prove", "start_verify", "verify", "assert", "elapsed_verify",  *)
(* "averages".                                                             *)
(***************************************************************************)
Backends == {"snark", "stark", "bulletproof"}

Durations == 1 .. MaxDuration

BenchAt(backend, mimc_rounds, samples) ==
    [pc |-> "setup", backend |-> backend, mimc_rounds |-> mimc_rounds,
     samples |-> samples, i |-> 0,
     timer |-> [prove |-> FALSE, verify |-> FALSE],
     total_proving |-> 0, total_verifying |-> 0,
     proving_avg |-> None, verifying_avg |-> None,
     log |-> << >>, l |-> Locals0]

InitBench ==
    /\ seed \in Seeds
    /\ debug_assertions \in BOOLEAN
    /\ run = [r \in Runs |-> RunAt("main_snark", "main", Locals0, << >>)]
    /\ fn = FnIdle
    /\ \E backend \in Backends, samples \in 1 .. MaxSamples,
          mimc_rounds \in {(MIMC_ROUNDS - 1) \div 2, MIMC_ROUNDS,
                           2 * (MIMC_ROUNDS + 1) + 1} :
           bench = BenchAt(backend, mimc_rounds, samples)

\* The statements of benchmark before the sampling loop: the generator, the
\* round constants, the keys, generators or options, the preimage and (snark)
\* the image.
benchmark_setup(backend, mimc_rounds) ==
    LET rng0 == from_seed(seed)
        n == IF backend = "stark" THEN MIMC_ROUNDS ELSE mimc_rounds
        constants == rng_draw(rng0, n)
        rng1 == rng_skip(rng0, n, "constants")
    IN  CASE backend = "snark" ->
                 Bind(generate_random_parameters(
                          MiMCCircuit(None, None, constants),
                          rng_draw(rng1, ParamDraws)), LAMBDA gen :
                 Bind(sample_preimage(rng_skip(rng1, ParamDraws, "crs")),
                      LAMBDA d :
                      [panics |-> ~gen.ok,
                       l |-> [Locals0 EXCEPT
                                  !.constants = constants,
                                  !.crs = gen.crs,
                                  !.pvk = prepare_verifying_key(gen.crs),
                                  !.xl = Some(d.xl), !.xr = Some(d.xr),
                                  !.image = Some(snark_mimc(d.xl, d.xr,
                                                            constants)),
                                  !.rng = d.rng]]))
          [] backend = "bulletproof" ->
                 Bind(sample_preimage(rng1), LAMBDA d :
                      [panics |-> FALSE,
                       l |-> [Locals0 EXCEPT
                                  !.constants = constants,
                                  !.bp_gens = Some(2 * GENS_CAPACITY),
                                  !.xl = Some(d.xl), !.xr = Some(d.xr),
                                  !.rng = d.rng]])
          [] backend = "stark" ->
                 Bind(sample_preimage(rng1), LAMBDA d :
                      [panics |-> FALSE,
                       l |-> [Locals0 EXCEPT
                                  !.options = Some(ProofOptions_new),
                                  !.constants = constants,
                                  !.xl = Some(d.xl), !.xr = Some(d.xr),
                                  !.rng = d.rng]])

\* The number of iterations of the sampling loop: for _ in 0..SAMPLES in
\* snark, for _ in 0..samples in bulletproof and stark.
benchmark_iterations(backend, samples) ==
    IF backend = "snark" THEN SAMPLES ELSE samples

\* The untimed statements at the head of an iteration: bulletproof and stark
\* compute the image there.
benchmark_prepare(backend, l, mimc_rounds) ==
    CASE backend = "snark" -> [panics |-> FALSE, l |-> l]
      [] backend = "bulletproof" ->
             IF bulletproof_mimc_panics(mimc_rounds, l.constants)
             THEN [panics |-> TRUE, l |-> l]
             ELSE [panics |-> FALSE,
                   l |-> [l EXCEPT !.image =
                              Some(bulletproof_mimc(unwrap(l.xl),
                                                    unwrap(l.xr), mimc_rounds,
                                                    l.constants))]]
      [] backend = "stark" ->
             [panics |-> FALSE,
              l |-> [l EXCEPT !.image =
                         Some(stark_mimc(unwrap(l.xl), unwrap(l.xr),
                                         l.constants))]]

\* The proving statements with the snark parameters generated anew for
\* every sample.
benchmark_prove_fresh_parameters(backend, l, mimc_rounds, debug) ==
    CASE backend = "snark" ->
             Bind(generate_random_parameters(
                      MiMCCircuit(None, None, l.constants),
                      rng_draw(l.rng, ParamDraws)), LAMBDA gen :
             Bind(rng_skip(l.rng, ParamDraws, "crs"), LAMBDA rng1 :
             Bind(create_random_proof(
                      MiMCCircuit(l.xl, l.xr, l.constants), gen.crs,
                      rng_draw(rng1, ProofDraws)), LAMBDA res :
                  [panics |-> ~res.ok,
                   l |-> [l EXCEPT !.crs = gen.crs,
                                   !.proof = res.proof,
                                   !.rng = rng_skip(rng1, ProofDraws,
                                                    "proof")]])))
      [] backend = "bulletproof" ->
             IF mimc_hash_2_panics(mimc_rounds, l.constants)
             THEN [panics |-> TRUE, l |-> l]
             ELSE Bind(bulletproof_prover_block(
                           unwrap(l.xl), unwrap(l.xr),
                           rng_draw(l.rng, 2)[1], rng_draw(l.rng, 2)[2],
                           mimc_rounds, l.constants, unwrap(l.image),
                           unwrap(l.bp_gens)), LAMBDA res :
                       [panics |-> ~res.ok,
                        l |-> [l EXCEPT !.proof = res.proof,
                                        !.commitments = res.commitments,
                                        !.rng = rng_skip(l.rng, 2,
                                                         "blinding")]])
      [] backend = "stark" ->
             IF build_trace_panics(MIMC_ROUNDS, l.constants, debug)
             THEN [panics |-> TRUE, l |-> l]
             ELSE Bind(stark_prove(build_trace(MIMC_ROUNDS, unwrap(l.xl),
                                               unwrap(l.xr), l.constants),
                                   unwrap(l.options), debug), LAMBDA res :
                       [panics |-> ~res.ok,
                        l |-> [l EXCEPT !.proof = res.proof]])

\* The timed proving statements of an iteration.
benchmark_prove(backend, l, mimc_rounds, debug) ==
    CASE backend = "snark" ->
             Bind(create_random_proof(
                      MiMCCircuit(l.xl, l.xr, l.constants), l.crs,
                      rng_draw(l.rng, ProofDraws)), LAMBDA res :
                  [panics |-> ~res.ok,
                   l |-> [l EXCEPT !.proof = res.proof,
                                   !.rng = rng_skip(l.rng, ProofDraws,
                                                    "proof")]])
      [] backend = "bulletproof" ->
             IF mimc_hash_2_panics(mimc_rounds, l.constants)
             THEN [panics |-> TRUE, l |-> l]
             ELSE Bind(bulletproof_prover_block(
                           unwrap(l.xl), unwrap(l.xr),
                           rng_draw(l.rng, 2)[1], rng_draw(l.rng, 2)[2],
                           mimc_rounds, l.constants, unwrap(l.image),
                           unwrap(l.bp_gens)), LAMBDA res :
                       [panics |-> ~res.ok,
                        l |-> [l EXCEPT !.proof = res.proof,
                                        !.commitments = res.commitments,
                                        !.rng = rng_skip(l.rng, 2,
                                                         "blinding")]])
      [] backend = "stark" ->
             IF build_trace_panics(MIMC_ROUNDS, l.constants, debug)
             THEN [panics |-> TRUE, l |-> l]
             ELSE Bind(stark_prove(build_trace(MIMC_ROUNDS, unwrap(l.xl),
                                               unwrap(l.xr), l.constants),
                                   unwrap(l.options), debug), LAMBDA res :
                       [panics |-> ~res.ok,
                        l |-> [l EXCEPT !.proof = res.proof]])

\* The timed verifying statements of an iteration.
benchmark_verify(backend, l, mimc_rounds) ==
    CASE backend = "snark" ->
             [panics |-> FALSE,
              l |-> [l EXCEPT !.verification_result =
                         IF verify_proof(l.pvk, l.proof,
                                         << unwrap(l.image) >>)
                         THEN "ok" ELSE "err"]]
      [] backend = "bulletproof" ->
             IF mimc_hash_2_panics(mimc_rounds, l.constants)
             THEN [panics |-> TRUE, l |-> l]
             ELSE Bind(bulletproof_verifier_block(
                           l.proof, l.commitments, mimc_rounds, l.constants,
                           unwrap(l.image), unwrap(l.bp_gens)), LAMBDA res :
                       [panics |-> FALSE,
                        l |-> [l EXCEPT !.verification_result =
                                   IF res.ok THEN "ok" ELSE "err"]])
      [] backend = "stark" ->
             [panics |-> FALSE,
              l |-> [l EXCEPT !.verification_result =
                         IF stark_verify(
                                l.proof,
                                PublicInputs(unwrap(l.xl), unwrap(l.xr),
                                             unwrap(l.image), l.constants),
                                {unwrap(l.options)})
                         THEN "ok" ELSE "err"]]

\* The order of the statements with the proving time read only after the
\* verifying timer has started.
benchmark_next_elapsed_late(backend, pc) ==
    CASE pc = "setup" -> "loop"
      [] pc = "prove_start" -> "prove"
      [] pc = "prove" -> "verify_start"
      [] pc = "verify_start" -> "prove_elapsed"
      [] pc = "prove_elapsed" -> "verify"
      [] pc = "verify" ->
             IF backend = "snark" THEN "assert" ELSE "verify_elapsed"
      [] pc = "assert" ->
             IF backend = "snark" THEN "verify_elapsed" ELSE "loop"
      [] pc = "verify_elapsed" ->
             IF backend = "snark" THEN "loop" ELSE "assert"
      [] pc = "averages" -> "done"

\* The order of the statements of benchmark: snark asserts the verification
\* result before it reads the verifying time, bulletproof and stark after.
benchmark_next(backend, pc) ==
    CASE pc = "setup" -> "loop"
      [] pc = "prove_start" -> "prove"
      [] pc = "prove" -> "prove_elapsed"
      [] pc = "prove_elapsed" -> "verify_start"
      [] pc = "verify_start" -> "verify"
      [] pc = "verify" ->
             IF backend = "snark" THEN "assert" ELSE "verify_elapsed"
      [] pc = "assert" ->
             IF backend = "snark" THEN "verify_elapsed" ELSE "loop"
      [] pc = "verify_elapsed" ->
             IF backend = "snark" THEN "loop" ELSE "assert"
      [] pc = "averages" -> "done"

\* A statement of benchmark at label `from`: bench becomes b, or the call
\* panics.
BenchStep(from, panics, b) ==
    /\ bench.pc = from
    /\ bench' = IF panics THEN [bench EXCEPT !.pc = "panicked"] ELSE b
    /\ UNCHANGED << seed, debug_assertions, run, fn >>

BenchSetup ==
    /\ bench.pc = "setup"
    /\ \E res \in {benchmark_setup(bench.backend, bench.mimc_rounds)} :
           BenchStep("setup", res.panics,
                     [bench EXCEPT !.pc = benchmark_next(bench.backend, "setup"),
                                   !.l = res.l,
                                   !.log = Append(@, "setup")])

\* The loop head and the untimed statements before the proving timer.
BenchLoop ==
    /\ bench.pc = "loop"
    /\ IF bench.i < benchmark_iterations(bench.backend, bench.samples)
       THEN \E res \in {benchmark_prepare(bench.backend, bench.l,
                                          bench.mimc_rounds)} :
                BenchStep("loop", res.panics,
                          [bench EXCEPT !.pc = "prove_start",
                                        !.i = @ + 1,
                                        !.l = res.l,
                                        !.log = Append(@, "prepare")])
       ELSE BenchStep("loop", FALSE, [bench EXCEPT !.pc = "averages"])

\* let start = Instant::now();
BenchProveStart ==
    BenchStep("prove_start", FALSE,
              [bench EXCEPT !.pc = benchmark_next(bench.backend, "prove_start"),
                            !.timer.prove = TRUE,
                            !.log = Append(@, "start_prove")])

BenchProve ==
    /\ bench.pc = "prove"
    /\ \E res \in {benchmark_prove(bench.backend, bench.l, bench.mimc_rounds,
                                   debug_assertions)} :
           BenchStep("prove", res.panics,
                     [bench EXCEPT !.pc = benchmark_next(bench.backend, "prove"),
                                   !.l = res.l,
                                   !.log = Append(@, "prove")])

\* total_proving += start.elapsed();
BenchProveElapsed ==
    \E d \in Durations :
        BenchStep("prove_elapsed", FALSE,
                  [bench EXCEPT !.pc = benchmark_next(bench.backend,
                                                      "prove_elapsed"),
                                !.timer.prove = FALSE,
                                !.total_proving = @ + d,
                                !.log = Append(@, "elapsed_prove")])

\* The untimed statements before the verifying timer, and
\* let start = Instant::now();
BenchVerifyStart ==
    BenchStep("verify_start", FALSE,
              [bench EXCEPT !.pc = benchmark_next(bench.backend, "verify_start"),
                            !.timer.verify = TRUE,
                            !.log = @ \o << "prepare", "start_verify" >>])

BenchVerify ==
    /\ bench.pc = "verify"
    /\ \E res \in {benchmark_verify(bench.backend, bench.l,
                                    bench.mimc_rounds)} :
           BenchStep("verify", res.panics,
                     [bench EXCEPT !.pc = benchmark_next(bench.backend, "verify"),
                                   !.l = res.l,
                                   !.log = Append(@, "verify")])

\* assert!(verification_result.is_ok());
BenchAssert ==
    BenchStep("assert", bench.pc = "assert"
                            /\ bench.l.verification_result # "ok",
              [bench EXCEPT !.pc = benchmark_next(bench.backend, "assert"),
                            !.log = Append(@, "assert")])

\* total_verifying += start.elapsed();
BenchVerifyElapsed ==
    \E d \in Durations :
        BenchStep("verify_elapsed", FALSE,
                  [bench EXCEPT !.pc = benchmark_next(bench.backend,
                                                      "verify_elapsed"),
                                !.timer.verify = FALSE,
                                !.total_verifying = @ + d,
                                !.log = Append(@, "elapsed_verify")])

\* proving_avg = total_proving / samples;
\* verifying_avg = total_verifying / samples;
BenchAverages ==
    BenchStep("averages", FALSE,
              [bench EXCEPT !.pc = benchmark_next(bench.backend, "averages"),
                            !.proving_avg =
                                Some(bench.total_proving \div bench.samples),
                            !.verifying_avg =
                                Some(bench.total_verifying \div bench.samples),
                            !.log = Append(@, "averages")])

NextBench ==
    \/ BenchSetup \/ BenchLoop \/ BenchProveStart \/ BenchProve
    \/ BenchProveElapsed \/ BenchVerifyStart \/ BenchVerify \/ BenchAssert
    \/ BenchVerifyElapsed \/ BenchAverages

SpecBench == InitBench /\ [][NextBench]_vars

(***************************************************************************)
(* The run specification: two independent runs of the driver.              *)
(***************************************************************************)
Next ==
    \E r \in Runs :
        \/ MainSnark(r) \/ MainStark(r) \/ MainBulletproof(r)
        \/ SnarkRng(r) \/ SnarkConstants(r) \/ SnarkCrs(r) \/ SnarkPvk(r)
        \/ SnarkPreimage(r) \/ SnarkImage(r) \/ SnarkProof(r)
        \/ SnarkVerify(r) \/ SnarkAssert(r) \/ SnarkMetrics(r)
        \/ StarkOptions(r) \/ StarkRng(r) \/ StarkConstants(r)
        \/ StarkPreimage(r) \/ StarkImage(r) \/ StarkProof(r)
        \/ StarkProofMetrics(r) \/ StarkVerify(r) \/ StarkAssert(r)
        \/ StarkMetrics(r)
        \/ BpRng(r) \/ BpConstants(r) \/ BpGens(r) \/ BpPreimage(r)
        \/ BpImage(r) \/ BpProve(r) \/ BpVerify(r) \/ BpAssert(r)
        \/ BpMetrics(r)

Spec == Init /\ [][Next]_vars

(***************************************************************************)
(* The rejection specification: a driver run or a benchmark in which the   *)
(* verifier may be handed a proof it rejects, so that the statements after *)
(* a verification call are exercised with both values of its Result.       *)
(***************************************************************************)
\* A proof no verifier accepts.
CorruptedProof == [kind |-> "corrupted"]

InitReject ==
    \/ Init
    \/ /\ seed \in Seeds
       /\ debug_assertions \in BOOLEAN
       /\ run = [r \in Runs |-> RunAt("idle", "main", Locals0, << >>)]
       /\ fn = FnIdle
       /\ \E backend \in Backends, samples \in 1 .. MaxSamples :
              bench = BenchAt(backend, MIMC_ROUNDS, samples)

\* The proof held at a verification call is one the verifier rejects.
ProofRejected ==
    \/ \E r \in Runs :
           /\ run[r].pc \in {"snark_verify", "stark_verify", "bp_verify"}
           /\ run[r].l.proof # CorruptedProof
           /\ run' = [run EXCEPT ![r].l.proof = CorruptedProof]
           /\ UNCHANGED << seed, debug_assertions, fn, bench >>
    \/ /\ bench.pc = "verify"
       /\ bench.l.proof # CorruptedProof
       /\ bench' = [bench EXCEPT !.l.proof = CorruptedProof]
       /\ UNCHANGED << seed, debug_assertions, run, fn >>

NextReject == Next \/ NextBench \/ ProofRejected

SpecReject == InitReject /\ [][NextReject]_vars

(***************************************************************************)
(* Properties of the pure functions (SpecFn).                              *)
(***************************************************************************)
\* The state (xl, xr) after k rounds of xl' = xr + (xl + c_i)^3, xr' = xl,
\* written over the integers modulo P.
RECURSIVE RoundState(_, _, _, _)
RoundState(xl, xr, constants, k) ==
    IF k = 0
    THEN << xl, xr >>
    ELSE Bind(RoundState(xl, xr, constants, k - 1),
              LAMBDA prev :
                  << (prev[2] + (prev[1] + constants[k])
                                * (prev[1] + constants[k])
                                * (prev[1] + constants[k])) % P,
                     prev[1] >>)

RoundImage(xl, xr, constants) ==
    RoundState(xl, xr, constants, Len(constants))[1]

\* C1: with len(constants) == R, bulletproof::mimc, snark::mimc and
\* stark::mimc each return the final xl of the round recurrence
\* xl' = xr + (xl + c_i)^3, xr' = xl applied for i = 0..R-1, hence the same
\* value.
C1_MimcFollowsRecurrence ==
    (fn.pc = "mimc" /\ fn.mimc_rounds = Len(fn.constants)) =>
        /\ fn.out.bulletproof = Some(RoundImage(fn.xl, fn.xr, fn.constants))
        /\ fn.out.snark = Some(RoundImage(fn.xl, fn.xr, fn.constants))
        /\ Len(fn.constants) = MIMC_ROUNDS =>
               fn.out.stark = Some(RoundImage(fn.xl, fn.xr, fn.constants))

C1_Witness ==
    /\ fn.pc = "mimc"
    /\ fn.mimc_rounds = MIMC_ROUNDS
    /\ Len(fn.constants) = MIMC_ROUNDS
    /\ fn.constants[1] # fn.constants[2]
    /\ fn.xl # fn.xr
    /\ fn.out.bulletproof = fn.out.snark
    /\ fn.out.snark = fn.out.stark
    /\ fn.out.stark # Some(fn.xl)

\* C2: with len(constants) == R, on the prover's constraint system (xl and xr
\* committed, every gate output the product of its inputs) the linear
\* combination mimc_hash_2 returns evaluates to mimc(xl, xr, R, constants),
\* and the one constraint mimc_gadget adds after it evaluates to zero
\* exactly when image is that value.
C2_GadgetComputesMimc ==
    (fn.pc = "gadget" /\ fn.mimc_rounds = Len(fn.constants)) =>
        /\ gates_hold(fn.out.hash.cs)
        /\ lc_eval(fn.out.hash.cs, fn.out.hash.lc)
               = bulletproof_mimc(fn.xl, fn.xr, fn.mimc_rounds, fn.constants)
        /\ Len(fn.out.prover.constraints)
               = Len(fn.out.hash.cs.constraints) + 1
        /\ (lc_eval(fn.out.prover,
                    fn.out.prover.constraints[
                        Len(fn.out.prover.constraints)]) = 0)
               <=> (unwrap(fn.image)
                        = bulletproof_mimc(fn.xl, fn.xr, fn.mimc_rounds,
                                           fn.constants))

C2_Witness ==
    /\ fn.pc = "gadget"
    /\ fn.mimc_rounds = MIMC_ROUNDS
    /\ Len(fn.constants) = MIMC_ROUNDS
    /\ fn.xl # fn.xr
    /\ fn.constants[1] # fn.constants[2]
    /\ Len(fn.out.prover.a_O) = 2 * MIMC_ROUNDS
    /\ constraints_hold(fn.out.prover, fn.out.prover)
    /\ unwrap(fn.image) # fn.xl

\* C3: mimc_gadget driven on the prover and on the verifier with the same
\* rounds, constants and image yields the same sequence of constraints (same
\* order, coefficients and variable indices) over the same number of
\* multiplication gates and commitments; only the prover holds assignments.
C3_SameConstraintGraph ==
    fn.pc = "gadget" =>
        /\ fn.out.prover.constraints = fn.out.verifier.constraints
        /\ multipliers_len(fn.out.prover) = multipliers_len(fn.out.verifier)
        /\ multipliers_len(fn.out.prover) = 2 * fn.mimc_rounds
        /\ Len(fn.out.prover.constraints) = 4 * fn.mimc_rounds + 1
        /\ Len(fn.out.prover.V) = Len(fn.out.verifier.V)

C3_Witness ==
    /\ fn.pc = "gadget"
    /\ fn.mimc_rounds = MIMC_ROUNDS
    /\ fn.out.prover.role = "prover"
    /\ fn.out.verifier.role = "verifier"
    /\ Len(fn.out.prover.a_L) = 2 * MIMC_ROUNDS
    /\ fn.out.verifier.a_L = << >>
    /\ fn.out.verifier.num_vars = 2 * MIMC_ROUNDS
    /\ fn.out.verifier.constraints # << >>

\* C4: synthesizing MiMCCircuit with the witness present and
\* len(constants) == R succeeds, assigns a value to every allocated variable,
\* the assignment satisfies every enforced constraint, and the single public
\* input is assigned snark::mimc(xl, xr, constants).
C4_SynthesisSatisfied ==
    (/\ fn.pc = "synthesize"
     /\ fn.out.mode = "prove"
     /\ Len(fn.constants) = MIMC_ROUNDS) =>
        /\ fn.out.syn.status = "ok"
        /\ Len(fn.out.syn.cs.aux_assignment) = fn.out.syn.cs.num_aux
        /\ Len(fn.out.syn.cs.input_assignment) = fn.out.syn.cs.num_inputs
        /\ r1cs_satisfied(fn.out.syn.cs.constraints, fn.out.syn.cs)
        /\ fn.out.syn.cs.input_assignment
               = << 1, snark_mimc(fn.xl, fn.xr, fn.constants) >>

C4_Witness ==
    /\ fn.pc = "synthesize"
    /\ fn.out.mode = "prove"
    /\ Len(fn.constants) = MIMC_ROUNDS
    /\ fn.out.syn.status = "ok"
    /\ fn.xr # 0
    /\ fn.constants[1] # fn.constants[2]
    /\ fn.out.syn.cs.constraints # << >>
    /\ fn.out.syn.cs.input_assignment[2] # fn.xl

\* The variables of round i (0-based) of the circuit, by allocation order:
\* xl and xr are the auxiliaries 0 and 1, round i allocates tmp and new_xl.
TmpVar(i) == Var("Aux", 2 + 2 * i)

NewXlVar(i) ==
    IF i = MIMC_ROUNDS - 1 THEN Var("Input", 1) ELSE Var("Aux", 3 + 2 * i)

XlVar(i) == IF i = 0 THEN Var("Aux", 0) ELSE NewXlVar(i - 1)

XrVar(i) ==
    IF i = 0 THEN Var("Aux", 1)
    ELSE IF i = 1 THEN Var("Aux", 0) ELSE NewXlVar(i - 2)

\* C5: synthesize enforces in round i exactly the two constraints
\* (xl + c_i) * (xl + c_i) = tmp and tmp * (xl + c_i) = new_xl - xr, the next
\* round's xr is the current xl, new_xl is a public input in the final round
\* only and an auxiliary otherwise; in total 2R constraints and one public
\* input besides the constant one.
C5_TwoConstraintsPerRound ==
    (fn.pc = "synthesize" /\ Len(fn.constants) = MIMC_ROUNDS) =>
        /\ fn.out.syn.status = "ok"
        /\ Len(fn.out.syn.cs.constraints) = 2 * MIMC_ROUNDS
        /\ fn.out.syn.cs.num_inputs = 2
        /\ fn.out.syn.cs.num_aux = 2 * MIMC_ROUNDS + 1
        /\ \A i \in 0 .. MIMC_ROUNDS - 1 :
               /\ fn.out.syn.cs.constraints[2 * i + 1]
                      = [a |-> << << XlVar(i), 1 >>,
                                  << Var("Input", 0), fn.constants[i + 1] >> >>,
                         b |-> << << XlVar(i), 1 >>,
                                  << Var("Input", 0), fn.constants[i + 1] >> >>,
                         c |-> << << TmpVar(i), 1 >> >>]
               /\ fn.out.syn.cs.constraints[2 * i + 2]
                      = [a |-> << << TmpVar(i), 1 >> >>,
                         b |-> << << XlVar(i), 1 >>,
                                  << Var("Input", 0), fn.constants[i + 1] >> >>,
                         c |-> << << NewXlVar(i), 1 >>,
                                  << XrVar(i), P - 1 >> >>]

C5_Witness ==
    /\ fn.pc = "synthesize"
    /\ fn.out.mode = "keygen"
    /\ Len(fn.constants) = MIMC_ROUNDS
    /\ fn.out.syn.status = "ok"
    /\ fn.out.syn.cs.constraints[2 * MIMC_ROUNDS].c[1][1] = Var("Input", 1)
    /\ fn.out.syn.cs.constraints[2].c[1][1] = Var("Aux", 3)
    /\ fn.constants[1] # fn.constants[MIMC_ROUNDS]

\* C6: with len(constants) == R, build_trace returns R + 1 rows of width 3:
\* row 0 is (xl, xr, c_0), row i + 1 is (xr_i + (xl_i + c_i)^3, xl_i, c_{i+1})
\* for 0 <= i < R - 1, the last row's third column is zero and its first
\* column is stark::mimc(xl, xr, constants).
C6_TraceRows ==
    (fn.pc = "build_trace" /\ Len(fn.constants) = MIMC_ROUNDS) =>
        /\ Len(fn.out.trace) = MIMC_ROUNDS + 1
        /\ \A k \in 1 .. Len(fn.out.trace) : Len(fn.out.trace[k]) = 3
        /\ fn.out.trace[1] = << fn.xl, fn.xr, fn.constants[1] >>
        /\ \A i \in 0 .. MIMC_ROUNDS - 2 :
               fn.out.trace[i + 2]
                   = << RoundState(fn.xl, fn.xr, fn.constants, i + 1)[1],
                        RoundState(fn.xl, fn.xr, fn.constants, i)[1],
                        fn.constants[i + 2] >>
        /\ fn.out.trace[MIMC_ROUNDS + 1][3] = 0
        /\ fn.out.trace[MIMC_ROUNDS + 1][1]
               = stark_mimc(fn.xl, fn.xr, fn.constants)

C6_Witness ==
    /\ fn.pc = "build_trace"
    /\ Len(fn.constants) = MIMC_ROUNDS
    /\ Len(fn.out.trace) = MIMC_ROUNDS + 1
    /\ fn.out.trace[2][3] # fn.out.trace[1][3]
    /\ fn.out.trace[MIMC_ROUNDS][3] # 0
    /\ fn.out.trace[MIMC_ROUNDS + 1][1] # fn.xl
    /\ fn.xl # fn.xr

\* C7: on the trace build_trace returns, with public inputs (xl, xr,
\* result = mimc(xl, xr, constants)), both transition constraints of MiMCAir
\* are zero on every pair of consecutive rows and the three boundary
\* assertions (column 0 at step 0 = xl, column 1 at step 0 = xr, column 0 at
\* the last step = result) hold.
C7_AirHoldsOnTrace ==
    (fn.pc = "build_trace" /\ Len(fn.constants) = MIMC_ROUNDS) =>
        \E air \in {MiMCAir_new(Len(fn.out.trace),
                                PublicInputs(fn.xl, fn.xr,
                                             stark_mimc(fn.xl, fn.xr,
                                                        fn.constants),
                                             fn.constants),
                                ProofOptions_new)} :
            /\ \A step \in 0 .. Len(fn.out.trace) - 2 :
                   evaluate_transition(fn.out.trace[step + 1],
                                       fn.out.trace[step + 2]) = << 0, 0 >>
            /\ get_assertions(air)
                   = << [column |-> 0, step |-> 0, value |-> fn.xl],
                        [column |-> 1, step |-> 0, value |-> fn.xr],
                        [column |-> 0, step |-> MIMC_ROUNDS,
                         value |-> stark_mimc(fn.xl, fn.xr, fn.constants)] >>
            /\ assertions_hold(air, fn.out.trace)

C7_Witness ==
    /\ fn.pc = "build_trace"
    /\ Len(fn.constants) = MIMC_ROUNDS
    /\ transitions_hold(fn.out.trace)
    /\ fn.out.pub_inputs.result = stark_mimc(fn.xl, fn.xr, fn.constants)
    /\ fn.out.pub_inputs.result # fn.out.trace[MIMC_ROUNDS + 1][2]
    /\ fn.out.trace[1][3] # 0
    /\ fn.xl # 0

(***************************************************************************)
(* Properties of the runs (Spec).                                          *)
(***************************************************************************)
\* The verifier of the backend run r is in, applied to the proof the run
\* holds, with the image and the round constants the verifier side is given.
\* The Groth16 verifier holds its constants inside the verifying key, which
\* is rebuilt for them from the same key-generation randomness.
VerifierAccepts(r, image, constants) ==
    CASE run[r].backend = "snark" ->
             verify_proof(
                 prepare_verifying_key(
                     generate_random_parameters(
                         MiMCCircuit(None, None, constants),
                         run[r].l.crs.toxic).crs),
                 run[r].l.proof, << image >>)
      [] run[r].backend = "stark" ->
             stark_verify(run[r].l.proof,
                          PublicInputs(unwrap(run[r].l.xl),
                                       unwrap(run[r].l.xr), image, constants),
                          {unwrap(run[r].l.options)})
      [] run[r].backend = "bulletproof" ->
             bulletproof_verifier_block(run[r].l.proof, run[r].l.commitments,
                                        MIMC_ROUNDS, constants, image,
                                        unwrap(run[r].l.bp_gens)).ok

\* Run r has executed the verification statement of its backend.
Verified(r) == run[r].pc \in {"snark_assert", "stark_assert", "bp_assert"}

\* C8: in each backend the proof made from the honest witness verifies
\* against the public input derived from that witness, and does not verify
\* when only the image is replaced by any other field element.
C8_RoundTrip ==
    \A r \in Runs :
        Verified(r) =>
            /\ run[r].l.verification_result = "ok"
            /\ VerifierAccepts(r, unwrap(run[r].l.image), run[r].l.constants)
            /\ \A image \in Field \ {unwrap(run[r].l.image)} :
                   ~VerifierAccepts(r, image, run[r].l.constants)

C8_Witness ==
    /\ run["run1"].pc = "bp_assert"
    /\ run["run1"].l.verification_result = "ok"
    /\ run["run1"].l.proof.kind = "bulletproof"
    /\ run["run2"].pc = "snark_assert"
    /\ run["run2"].l.proof.kind = "groth16"
    /\ run["run2"].l.xl # run["run2"].l.xr

\* C9: in each backend, once the proof exists, a verifier side on which one
\* round constant differs from the prover's rejects the proof.
C9_TamperedConstantRejected ==
    \A r \in Runs :
        Verified(r) =>
            \A j \in 1 .. MIMC_ROUNDS :
                \A c \in Field \ {run[r].l.constants[j]} :
                    ~VerifierAccepts(r, unwrap(run[r].l.image),
                                     [run[r].l.constants EXCEPT ![j] = c])

C9_Witness ==
    /\ run["run1"].pc = "stark_assert"
    /\ run["run1"].l.verification_result = "ok"
    /\ run["run1"].l.proof.kind = "stark"
    /\ run["run1"].l.constants[1] # run["run1"].l.constants[2]
    /\ run["run2"].pc = "bp_assert"
    /\ run["run2"].l.verification_result = "ok"

XlDrawAt(r) ==
    CHOOSE j \in 1 .. Len(run[r].l.rng.log) : run[r].l.rng.log[j] = "xl"

\* The first MIMC_ROUNDS values of the stream are the round constants of r.
ConstantsDrawnFirst(r) ==
    LET l == run[r].l
    IN  /\ Len(l.rng.log) >= MIMC_ROUNDS
        /\ \A k \in 1 .. MIMC_ROUNDS :
               /\ l.rng.log[k] = "constants"
               /\ l.constants[k] = Stream(seed, k - 1)

\* C11 as stated: in every backend's run the first MIMC_ROUNDS values of the
\* seeded stream are the round constants and the next two values are xl and
\* then xr, with no other consumer between the last constant and the
\* preimage.
C11_PreimageRightAfterConstants ==
    \A r \in Runs :
        LET l == run[r].l
        IN  IsSome(l.xr) =>
                /\ ConstantsDrawnFirst(r)
                /\ l.rng.log[MIMC_ROUNDS + 1] = "xl"
                /\ l.rng.log[MIMC_ROUNDS + 2] = "xr"
                /\ l.xl = Some(Stream(seed, MIMC_ROUNDS))
                /\ l.xr = Some(Stream(seed, MIMC_ROUNDS + 1))

\* C11 amended: the first MIMC_ROUNDS values are the round constants; xl and
\* xr are two consecutive values of the stream, xl first; in the stark and
\* bulletproof runs they follow the last constant directly, and in the snark
\* run exactly the values drawn by parameter generation lie between the last
\* constant and xl.
C11_PreimageAfterConstants ==
    \A r \in Runs :
        LET l == run[r].l
            j == XlDrawAt(r)
        IN  IsSome(l.xr) =>
                /\ ConstantsDrawnFirst(r)
                /\ \E k \in 1 .. Len(l.rng.log) : l.rng.log[k] = "xl"
                /\ j > MIMC_ROUNDS
                /\ Len(l.rng.log) > j
                /\ l.rng.log[j + 1] = "xr"
                /\ l.xl = Some(Stream(seed, j - 1))
                /\ l.xr = Some(Stream(seed, j))
                /\ \A k \in MIMC_ROUNDS + 1 .. j - 1 : l.rng.log[k] = "crs"
                /\ run[r].backend \in {"stark", "bulletproof"}
                       => j = MIMC_ROUNDS + 1
                /\ run[r].backend = "snark" => j > MIMC_ROUNDS + 1

C11_Witness ==
    /\ run["run1"].backend = "snark"
    /\ IsSome(run["run1"].l.xr)
    /\ run["run1"].l.xl # Some(Stream(seed, MIMC_ROUNDS))
    /\ run["run2"].backend = "bulletproof"
    /\ IsSome(run["run2"].l.xr)

(***************************************************************************)
(* C12                                                                     *)
(***************************************************************************)
\* n = 2^k - 1 for some k >= kmin.
IsMersenne(n, kmin) == \E k \in kmin .. n + 1 : 2 ^ k - 1 = n

\* C12 as stated: for every round count R = 2^k - 1 with k >= 1, proof
\* generation for the R-round gadget with a generator capacity smaller than
\* (R + 1) * 2 fails and produces no proof.
C12_SmallCapacityFails ==
    (/\ fn.pc = "prove"
     /\ IsMersenne(fn.mimc_rounds, 1)
     /\ fn.out.capacity < (fn.mimc_rounds + 1) * 2) =>
        /\ ~fn.out.res.ok
        /\ fn.out.res.proof = NoProof

\* C12 amended: for every round count R = 2^k - 1 with k >= 2, proof
\* generation for the R-round gadget with a generator capacity smaller than
\* (R + 1) * 2 fails and produces no proof.
C12_SmallCapacityFailsFromThree ==
    (/\ fn.pc = "prove"
     /\ IsMersenne(fn.mimc_rounds, 2)
     /\ fn.out.capacity < (fn.mimc_rounds + 1) * 2) =>
        /\ ~fn.out.res.ok
        /\ fn.out.res.proof = NoProof

C12_Witness ==
    /\ fn.pc = "prove"
    /\ fn.mimc_rounds = MIMC_ROUNDS
    /\ fn.out.multipliers = 2 * MIMC_ROUNDS
    /\ fn.out.capacity = GENS_CAPACITY - 1
    /\ fn.out.capacity > fn.out.multipliers
    /\ ~fn.out.res.ok

(***************************************************************************)
(* C13                                                                     *)
(***************************************************************************)
\* n = 2^k for some k >= 0.
IsPowerOfTwo(n) == \E k \in 0 .. n : 2 ^ k = n

\* C13: STARK trace construction fails, before any proof is attempted,
\* whenever the trace row count R + 1 is not a power of two or is smaller
\* than 8 (for example R = 6), in every build profile and for every constants
\* slice; a trace that is built has exactly R + 1 rows.
C13_BadTraceLengthFails ==
    /\ (/\ fn.pc \in {"build_trace", "build_trace_panicked"}
        /\ \/ ~IsPowerOfTwo(fn.mimc_rounds + 1)
           \/ fn.mimc_rounds + 1 < 8) =>
           /\ fn.pc = "build_trace_panicked"
           /\ fn.out = None
    /\ fn.pc = "build_trace" => Len(fn.out.trace) = fn.mimc_rounds + 1

C13_Witness ==
    /\ fn.pc = "build_trace_panicked"
    /\ fn.mimc_rounds = 6
    /\ Len(fn.constants) = 6
    /\ ~debug_assertions

(***************************************************************************)
(* C14                                                                     *)
(***************************************************************************)
\* C14: Groth16 synthesis with a constants sequence whose length differs from
\* the compiled round count fails fatally before it allocates any variable
\* or enforces any constraint, in key generation and in proving.
C14_LengthAssertedFirst ==
    (fn.pc = "synthesize" /\ Len(fn.constants) # MIMC_ROUNDS) =>
        /\ fn.out.syn.status = "panic"
        /\ fn.out.syn.cs = snark_cs_new(fn.out.mode)
        /\ fn.out.syn.cs.num_aux = 0
        /\ fn.out.syn.cs.num_inputs = 1
        /\ fn.out.syn.cs.constraints = << >>

C14_Witness ==
    /\ fn.pc = "synthesize"
    /\ Len(fn.constants) = MIMC_ROUNDS + 1
    /\ fn.out.mode = "prove"
    /\ fn.out.syn.status = "panic"

(***************************************************************************)
(* C15                                                                     *)
(***************************************************************************)
\* C15: in bulletproof::mimc, mimc_gadget (with the proof generated from it)
\* and build_trace a constants sequence whose length differs from the round
\* count, shorter or longer, causes a fatal failure: the function returns no
\* value, the gadget builds no constraint system, no trace is built, and no
\* proof is produced.
C15_LengthMismatchFatal ==
    Len(fn.constants) # fn.mimc_rounds =>
        /\ fn.pc = "mimc" => fn.out.bulletproof = None
        /\ fn.pc \notin {"gadget", "build_trace"}
        /\ fn.pc = "prove" => fn.out.res.proof = NoProof

(***************************************************************************)
(* C16                                                                     *)
(***************************************************************************)
\* C16: Groth16 synthesis for proving with xl missing, xr missing or both
\* missing ends with AssignmentMissing before any constraint is enforced,
\* and create_random_proof produces no proof.
C16_MissingWitnessReported ==
    (fn.pc = "prove_missing" /\ Len(fn.constants) = MIMC_ROUNDS) =>
        /\ fn.out.syn.status = "AssignmentMissing"
        /\ fn.out.syn.cs.constraints = << >>
        /\ ~fn.out.res.ok
        /\ fn.out.res.status = "AssignmentMissing"
        /\ fn.out.res.proof = NoProof

C16_Witness ==
    /\ fn.pc = "prove_missing"
    /\ Len(fn.constants) = MIMC_ROUNDS
    /\ fn.out.xl_present
    /\ ~fn.out.xr_present
    /\ fn.out.syn.status = "AssignmentMissing"
    /\ fn.out.syn.cs.num_aux = 1
    /\ fn.out.res.proof = NoProof

(***************************************************************************)
(* Properties of the benchmarks (SpecBench).                               *)
(***************************************************************************)
\* The positions of the statement e in the log of the benchmark.
LogAt(e) == {k \in 1 .. Len(bench.log) : bench.log[k] = e}

\* Whether the timer started by `start` and read by `elapsed` is running when
\* the k-th statement of the log executes.
TimerRunningAt(k, start, elapsed) ==
    \E j \in 1 .. k - 1 :
        /\ bench.log[j] = start
        /\ \A m \in j + 1 .. k - 1 : bench.log[m] # elapsed

\* C17: in every benchmark the setup comes first, then one correctness pass
\* that generates a fresh proof and asserts that it verifies, then the timed
\* samples: when a timer starts, the setup and, after it, an untimed proof
\* with an asserted verification have been executed.
C17_CorrectnessPassBeforeSamples ==
    bench.pc # "idle" =>
        \A k \in LogAt("start_prove") \cup LogAt("start_verify") :
            \E s \in LogAt("setup"), p \in LogAt("prove"),
               a \in LogAt("assert") :
                /\ s < p
                /\ p < a
                /\ a < k
                /\ ~TimerRunningAt(p, "start_prove", "elapsed_prove")

\* C18: for every backend and samples >= 1, benchmark performs exactly
\* `samples` timed prove steps and `samples` timed verify steps, and each
\* reported average is the accumulated time divided by the number of
\* iterations performed.
C18_SamplesIterations ==
    bench.pc = "done" =>
        /\ Cardinality(LogAt("elapsed_prove")) = bench.samples
        /\ Cardinality(LogAt("elapsed_verify")) = bench.samples
        /\ bench.i = bench.samples
        /\ bench.proving_avg = Some(bench.total_proving \div bench.i)
        /\ bench.verifying_avg = Some(bench.total_verifying \div bench.i)

\* C19: in every benchmark the construction of generators, keys and
\* parameters (the setup) completes before the first timer starts, no setup
\* or other untimed statement executes between a timer's start and the
\* reading of its elapsed time, and the prove timer and the verify timer
\* never run at the same time.
C19_SetupOutsideTimers ==
    bench.pc # "idle" =>
        /\ ~(bench.timer.prove /\ bench.timer.verify)
        /\ LogAt("setup") \subseteq {1}
        /\ bench.log # << >> => bench.log[1] = "setup"
        /\ \A k \in 1 .. Len(bench.log) :
               /\ bench.log[k] \in {"setup", "prepare", "averages"} =>
                      /\ ~TimerRunningAt(k, "start_prove", "elapsed_prove")
                      /\ ~TimerRunningAt(k, "start_verify", "elapsed_verify")
               /\ bench.log[k] \in {"start_verify", "verify"} =>
                      ~TimerRunningAt(k, "start_prove", "elapsed_prove")
               /\ bench.log[k] \in {"start_prove", "prove"} =>
                      ~TimerRunningAt(k, "start_verify", "elapsed_verify")
               /\ bench.log[k] = "prove" =>
                      TimerRunningAt(k, "start_prove", "elapsed_prove")
               /\ bench.log[k] = "verify" =>
                      TimerRunningAt(k, "start_verify", "elapsed_verify")

C19_Witness ==
    /\ bench.pc = "done"
    /\ bench.backend = "bulletproof"
    /\ bench.samples = 2
    /\ Cardinality(LogAt("elapsed_prove")) = 2
    /\ Cardinality(LogAt("elapsed_verify")) = 2
    /\ bench.total_proving = 3
    /\ bench.l.verification_result = "ok"

(***************************************************************************)
(* C20                                                                     *)
(***************************************************************************)
\* The backends whose run() has returned in run r, in order.
ReturnedBackends(r) ==
    [k \in 1 .. Len(run[r].returned) |-> run[r].returned[k].backend]

\* C20: the driver runs the three backends strictly one after another, snark,
\* stark, bulletproof: while a backend's run() is active the backends before
\* it, and only those, have returned, each with its verification result
\* asserted Ok, and main calls the next backend only after the previous one
\* has returned.
C20_BackendsInSequence ==
    \A r \in Runs :
        /\ \A k \in 1 .. Len(run[r].returned) :
               run[r].returned[k].verification_result = "ok"
        /\ run[r].backend \in {"main", "snark", "stark", "bulletproof"}
        /\ run[r].backend = "snark" => ReturnedBackends(r) = << >>
        /\ run[r].backend = "stark" => ReturnedBackends(r) = << "snark" >>
        /\ run[r].backend = "bulletproof" =>
               ReturnedBackends(r) = << "snark", "stark" >>
        /\ run[r].pc = "main_snark" => ReturnedBackends(r) = << >>
        /\ run[r].pc = "main_stark" => ReturnedBackends(r) = << "snark" >>
        /\ run[r].pc = "main_bulletproof" =>
               ReturnedBackends(r) = << "snark", "stark" >>
        /\ run[r].pc = "main_done" =>
               ReturnedBackends(r) = << "snark", "stark", "bulletproof" >>

C20_Witness ==
    /\ run["run1"].pc = "main_done"
    /\ Len(run["run1"].returned) = 3
    /\ run["run2"].backend = "stark"
    /\ run["run2"].pc = "stark_assert"
    /\ run["run2"].l.verification_result = "ok"

(***************************************************************************)
(* Properties of the rejection specification (SpecReject).                 *)
(***************************************************************************)
\* C21 as stated: every verification result of run() and benchmark() is
\* asserted immediately after the call: the statement executed after a
\* verification call is the assertion on its result.
C21_AssertedImmediately ==
    /\ \A r \in Runs :
           run[r].l.verification_result # "none" =>
               run[r].pc \in {"snark_assert", "stark_assert", "bp_assert",
                              "snark_metrics", "stark_metrics", "bp_metrics",
                              "panicked"}
    /\ bench.pc # "idle" =>
           \A k \in LogAt("verify") :
               k < Len(bench.log) => bench.log[k + 1] = "assert"

\* C21 amended: every verification result of run() and benchmark() is
\* asserted to be an acceptance after the call, with no statement in between
\* except, in bulletproof::benchmark and stark::benchmark, the reading of
\* the verifying timer; a rejection aborts the run at the assertion, and
\* after a rejection nothing else is executed: no metrics, no further sample
\* and no second verification.
C21_RejectionAborts ==
    /\ \A r \in Runs :
           /\ run[r].l.verification_result # "none" =>
                  run[r].pc \in {"snark_assert", "stark_assert", "bp_assert",
                                 "snark_metrics", "stark_metrics",
                                 "bp_metrics", "panicked"}
           /\ run[r].l.verification_result = "err" =>
                  run[r].pc \in {"snark_assert", "stark_assert", "bp_assert",
                                 "panicked"}
    /\ bench.pc # "idle" =>
           /\ \A k \in LogAt("verify") :
                  /\ k < Len(bench.log) =>
                         bench.log[k + 1] \in
                             IF bench.backend = "snark"
                             THEN {"assert"} ELSE {"elapsed_verify"}
                  /\ (k + 1 < Len(bench.log) /\ bench.backend # "snark") =>
                         bench.log[k + 2] = "assert"
           /\ bench.l.verification_result = "err" =>
                  /\ bench.log[Len(bench.log)] \in {"verify", "elapsed_verify"}
                  /\ bench.pc \in
                         IF bench.backend = "snark"
                         THEN {"assert", "panicked"}
                         ELSE {"verify_elapsed", "assert", "panicked"}

C21_Witness ==
    /\ bench.pc = "panicked"
    /\ bench.backend = "stark"
    /\ bench.l.verification_result = "err"
    /\ bench.i = 2
    /\ bench.samples = 3
    /\ Cardinality(LogAt("verify")) = 2

\* C22: the round count is an explicit parameter of every component: for
\* every backend, benchmark(mimc_rounds, samples) called with a structurally
\* valid round count (2^k - 1, k >= 2), equal to MIMC_ROUNDS or not, does
\* not abort, and the statement it has proved and verified is the one of
\* mimc_rounds rounds (mimc_rounds round constants).
C22_RoundsParameterHonoured ==
    (bench.pc # "idle" /\ bench.mimc_rounds <= MIMC_ROUNDS
                       /\ IsMersenne(bench.mimc_rounds, 2)) =>
        /\ bench.pc # "panicked"
        /\ bench.l.verification_result = "ok" =>
               Len(bench.l.constants) = bench.mimc_rounds

\* The constraints multiply adds for gate g of round j when both inputs are
\* the linear combination lc, and the ones of the gate after it whose inputs
\* are the output and the left wire of gate g.
SquareGateAt(cs, k, g) ==
    \E lc \in {SubSeq(cs.constraints[k], 1, Len(cs.constraints[k]) - 1)} :
        /\ cs.constraints[k]
               = Append(lc, << Var("MultiplierLeft", g), Neg(1) >>)
        /\ cs.constraints[k + 1]
               = Append(lc, << Var("MultiplierRight", g), Neg(1) >>)

CubeGateAt(cs, k, g) ==
    /\ cs.constraints[k]
           = << << Var("MultiplierOutput", g - 1), 1 >>,
                << Var("MultiplierLeft", g), Neg(1) >> >>
    /\ cs.constraints[k + 1]
           = << << Var("MultiplierLeft", g - 1), 1 >>,
                << Var("MultiplierRight", g), Neg(1) >> >>

\* The gates and constraints of the gadget on the constraint system cs.
RoundGatesOf(cs) ==
    /\ multipliers_len(cs) = 2 * fn.mimc_rounds
    /\ Len(cs.constraints) = 4 * fn.mimc_rounds + 1
    /\ \A j \in 0 .. fn.mimc_rounds - 1 :
           /\ SquareGateAt(cs, 4 * j + 1, 2 * j)
           /\ cs.constraints[4 * j + 1][Len(cs.constraints[4 * j + 1]) - 1]
                  = << One, fn.constants[j + 1] >>
           /\ CubeGateAt(cs, 4 * j + 3, 2 * j + 1)
    /\ cs.constraints[4 * fn.mimc_rounds + 1]
           = lc_sub(fn.out.hash.lc, lc_from_scalar(unwrap(fn.image)))

\* C23: mimc_hash_2 allocates exactly two multiplication gates per round:
\* gate 2j multiplies (left + c_j) by itself and gate 2j + 1 multiplies the
\* output of gate 2j by its left wire, so mimc_rounds rounds leave exactly
\* 2 * mimc_rounds gates, on the prover and on the verifier; mimc_hash_2
\* adds no linear constraint besides those of its gates, and mimc_gadget adds
\* exactly one, the image constraint, after the last round.
C23_TwoGatesPerRound ==
    fn.pc = "gadget" =>
        /\ RoundGatesOf(fn.out.prover)
        /\ RoundGatesOf(fn.out.verifier)
        /\ multipliers_len(fn.out.hash.cs) = 2 * fn.mimc_rounds
        /\ fn.out.hash.cs.constraints
               = SubSeq(fn.out.prover.constraints, 1, 4 * fn.mimc_rounds)
        /\ \A j \in 0 .. fn.mimc_rounds - 1 :
               /\ fn.out.prover.a_L[2 * j + 1]
                      = Add(bulletproof_mimc(fn.xl, fn.xr, j, fn.constants),
                            fn.constants[j + 1])
               /\ fn.out.prover.a_R[2 * j + 1] = fn.out.prover.a_L[2 * j + 1]
               /\ fn.out.prover.a_L[2 * j + 2] = fn.out.prover.a_O[2 * j + 1]
               /\ fn.out.prover.a_R[2 * j + 2] = fn.out.prover.a_L[2 * j + 1]

C23_Witness ==
    /\ fn.pc = "gadget"
    /\ fn.mimc_rounds = 3
    /\ Len(fn.constants) = 3
    /\ Len(fn.out.prover.a_L) = 6
    /\ fn.out.verifier.num_vars = 6
    /\ Len(fn.out.verifier.constraints) = 13
    /\ fn.out.prover.a_L[1] # fn.out.prover.a_L[3]
    /\ fn.out.prover.a_O[1] # fn.out.prover.a_L[1]
    /\ fn.out.prover.a_O[2] # fn.out.prover.a_O[1]

\* C24: the constraints of MiMCAir tie the trace to all public inputs: any
\* 3-column trace of R + 1 rows that satisfies both transition constraints on
\* every step and the three boundary assertions for the public inputs
\* (xl, xr, result, round_constants) has result = mimc(xl, xr,
\* round_constants), and its constant column equals the public round
\* constants.
C24_AirTiesPublicInputs ==
    (fn.pc = "air" /\ fn.out.air_holds) =>
        /\ fn.out.pub_inputs.result
               = stark_mimc(fn.out.pub_inputs.xl, fn.out.pub_inputs.xr,
                            fn.out.pub_inputs.round_constants)
        /\ \A step \in 0 .. MIMC_ROUNDS - 1 :
               trace_get(fn.out.trace, 2, step)
                   = fn.out.pub_inputs.round_constants[step + 1]

\* C25: for every xl, xr and constants with len(constants) == R,
\* get_pub_inputs(build_trace(xl, xr, constants)) is exactly
\* (xl, xr, mimc(xl, xr, constants), constants).
C25_PubInputsOfBuiltTrace ==
    (fn.pc = "build_trace" /\ fn.mimc_rounds = MIMC_ROUNDS
                           /\ Len(fn.constants) = MIMC_ROUNDS) =>
        /\ fn.out.pub_inputs.xl = fn.xl
        /\ fn.out.pub_inputs.xr = fn.xr
        /\ fn.out.pub_inputs.result = stark_mimc(fn.xl, fn.xr, fn.constants)
        /\ fn.out.pub_inputs.round_constants = fn.constants

C25_Witness ==
    /\ fn.pc = "build_trace"
    /\ fn.mimc_rounds = MIMC_ROUNDS
    /\ Len(fn.constants) = MIMC_ROUNDS
    /\ fn.out.pub_inputs.round_constants[MIMC_ROUNDS] # 0
    /\ fn.out.pub_inputs.round_constants[1]
           # fn.out.pub_inputs.round_constants[2]
    /\ fn.out.pub_inputs.result # fn.out.pub_inputs.xl
    /\ fn.out.pub_inputs.xl # fn.out.pub_inputs.xr

\* C26: in bulletproof::run and in bulletproof::benchmark(mimc_rounds,
\* samples) the capacity of the generators used for proving and verifying is
\* at least (mimc_rounds + 1) * 2, for every round count the function is run
\* with.
C26_CapacityCoversRounds ==
    /\ \A r \in Runs :
           IsSome(run[r].l.bp_gens) =>
               unwrap(run[r].l.bp_gens) >= (MIMC_ROUNDS + 1) * 2
    /\ (bench.pc # "idle" /\ IsSome(bench.l.bp_gens)) =>
           unwrap(bench.l.bp_gens) >= (bench.mimc_rounds + 1) * 2

\* The positions of the generator's log at which the statement who drew.
DrawsOf(rng, who) == { k \in 1 .. Len(rng.log) : rng.log[k] = who }

\* On the locals l of snark::run or snark::benchmark: the parameters have
\* been drawn at most once and before every proof, the verifying key is
\* prepared from them, and the proof held was created with them.
SnarkKeysOnce(l) ==
    /\ Cardinality(DrawsOf(l.rng, "crs")) \in {0, ParamDraws}
    /\ l.crs.kind = "crs" <=> Cardinality(DrawsOf(l.rng, "crs")) = ParamDraws
    /\ \A i \in DrawsOf(l.rng, "crs"), j \in DrawsOf(l.rng, "proof") : i < j
    /\ l.crs.kind = "crs" =>
           l.crs.toxic
               = [k \in 1 .. ParamDraws |->
                      Stream(l.rng.seed, MIMC_ROUNDS + k - 1)]
    /\ l.pvk.kind = "pvk" =>
           /\ l.crs.kind = "crs"
           /\ l.pvk = prepare_verifying_key(l.crs)
    /\ l.proof.kind = "groth16" =>
           /\ l.crs.kind = "crs"
           /\ l.pvk.kind = "pvk"
           /\ l.proof.toxic = l.crs.toxic
    /\ (l.verification_result = "ok" /\ l.proof.kind = "groth16") =>
           verify_proof(prepare_verifying_key(l.crs), l.proof,
                        << unwrap(l.image) >>)

\* Between two states of the same snark function the keys, once made, stay.
SnarkKeysKept(l, lnext) ==
    /\ l.crs.kind = "crs" => lnext.crs = l.crs
    /\ l.pvk.kind = "pvk" => lnext.pvk = l.pvk

\* C27: Groth16 parameter generation happens exactly once per run or
\* benchmark, before any proof is created; every proof created afterwards,
\* in all samples, is created with that same proving key and verified with
\* the verifying key prepared from it; the parameters are never regenerated
\* between samples.
C27_ParametersGeneratedOnce ==
    /\ [](/\ \A r \in Runs :
                 run[r].backend = "snark" => SnarkKeysOnce(run[r].l)
          /\ (bench.pc \notin {"idle", "setup"} /\ bench.backend = "snark") =>
                 /\ SnarkKeysOnce(bench.l)
                 /\ LogAt("setup") = {1}
                 /\ bench.pc # "panicked" => bench.l.crs.kind = "crs"
                 /\ Cardinality(DrawsOf(bench.l.rng, "proof"))
                        = ProofDraws * Cardinality(LogAt("prove")))
    /\ [][/\ \A r \in Runs :
                 (run[r].backend = "snark" /\ run'[r].backend = "snark") =>
                     SnarkKeysKept(run[r].l, run'[r].l)
          /\ (bench.pc \notin {"idle", "setup"} /\ bench.backend = "snark") =>
                 SnarkKeysKept(bench.l, bench'.l)]_vars

C27_Witness ==
    /\ bench.pc = "assert"
    /\ bench.backend = "snark"
    /\ Cardinality(LogAt("prove")) = 2
    /\ Cardinality(DrawsOf(bench.l.rng, "crs")) = ParamDraws
    /\ bench.l.proof.kind = "groth16"
    /\ bench.l.proof.toxic = bench.l.crs.toxic
    /\ bench.l.verification_result = "ok"

====
